---------------------------- MODULE Spec2Model ----------------------------
(***************************************************************************)
(* Holder-count discovery and holder-distribution analysis of              *)
(* backend/services/cardano_service.py (CardanoService).                   *)
(*                                                                         *)
(* get_token_holders is modelled as a state machine with one action per    *)
(* request it awaits; analyze_holder_distribution and _calculate_gini are  *)
(* operators.  Percentages are integers in hundredths of a percent (the    *)
(* code rounds them to 2 decimals) and the Gini coefficient is an integer  *)
(* in thousandths (the code rounds it to 3 decimals): 10000 is 100.0 and   *)
(* 1000 is 1.0.  The code rounds floats: the model rounds the exact        *)
(* quotient to the nearest value and, where the quotient lies halfway      *)
(* between two values, gives both as outcomes.                             *)
(*                                                                         *)
(* The agents built on the service follow: the readiness score of          *)
(* agents/token_analysis_agent.py (scores in tenths, exact fractions       *)
(* before the rounding), and the gap prioritisation and the audit log of   *)
(* agents/ecosystem_bridge_agent.py (one action per awaited task of        *)
(* process_request, two requests interleaved).  The retry loop of          *)
(* services/email_service.py and the start/stop loop of                    *)
(* agents/monitoring_agent.py close the module.                            *)
(***************************************************************************)
EXTENDS Integers, Sequences, FiniteSets, TLC

VARIABLES
    total,            \* PageSource: the true number of holder rows of the asset
    pc,               \* position of the run
    holders,          \* get_token_holders: the local list `holders`
    low,              \* get_token_holders: `low`
    high,             \* get_token_holders: `high`
    final_page_data,  \* get_token_holders: `final_page_data`
    total_holders,    \* get_token_holders: `total_holders`
    requests,         \* every page request made so far: <<[page, ok]>>
    failures,         \* PageSource: transient failures so far (after page 1)
    outage,           \* PageSource: TRUE once it has gone down for good
    stray_budget,     \* PageSource: rows it may still invent for a request
    ret,              \* what get_token_holders handed to its caller
    holder_list,      \* analyze_holder_distribution: argument `holders`
    total_supply,     \* analyze_holder_distribution: argument `total_supply`
    snapshot,         \* analyze_holder_distribution: the dict returned
    swaps,            \* number of times the caller reordered holder_list
    metrics,          \* _calculate_readiness_score: argument `metrics`
    readiness,        \* _calculate_readiness_score: the ReadinessScore returned
    exchange_metrics, \* _calculate_readiness_scoring: the metrics extracted
    exchange_scores,  \* _prioritize_issues: argument `exchange_scores`
    prioritized_issues, \* _prioritize_issues: the list returned
    audit_log,        \* EcosystemBridgeAgent: self.audit_log
    run_pc,           \* process_request: the audit events each run has logged
    results,          \* process_request: the `results` of each run
    execution,        \* process_request: one request, its mode and consent,
                      \* the tasks done and what `results` holds of them
    email,            \* EmailService.send_email: one call, the SMTP outcomes
                      \* it met, self.delivery_log and what it returned
    monitor           \* MonitoringAgent: self.running and the start() loops

\* the variables of TokenAnalysisAgent
scorerVars == <<metrics, readiness>>

\* the variables of EcosystemBridgeAgent's gap analysis
gapVars == <<exchange_metrics, exchange_scores, prioritized_issues>>

\* the variables of EcosystemBridgeAgent.process_request
bridgeVars == <<audit_log, run_pc, results, execution>>

\* the variables of the agents, which CardanoService leaves alone
agentVars == <<scorerVars, gapVars, bridgeVars>>

\* the variables of EmailService and MonitoringAgent
supportVars == <<email, monitor>>

vars == <<total, pc, holders, low, high, final_page_data, total_holders,
          requests, failures, outage, stray_budget, ret, holder_list,
          total_supply, snapshot, swaps, agentVars, supportVars>>

-----------------------------------------------------------------------------
(* Program constants *)

PageSize == 100
FirstUpperBound == 1000
ProbeFactor == 10
SafetyCeiling == 10000000
TOTAL_HOLDERS == "__TOTAL_HOLDERS__"
\* top holder % above which a token is high risk, in hundredths of a percent
HIGH_RISK_CONCENTRATION_THRESHOLD == 4000
max_retries == 3

(* Bounds of the model *)

\* transient failures of the PageSource in one run
MaxFailures == 1
\* length of the exhaustively enumerated holder lists
MaxLen == 3
\* largest quantity in the exhaustively enumerated holder lists
MaxQty == 3
\* reorderings of one holder list
MaxSwaps == 1
\* exchanges in one gap analysis
MaxExchanges == 3
\* requests an unreliable PageSource answers with rows of its own
MaxStrays == 1
MaxLoops == 2
MaxIterations == 3

-----------------------------------------------------------------------------
(* Arithmetic helpers *)

Min(a, b) == IF a < b THEN a ELSE b
Max(a, b) == IF a > b THEN a ELSE b

\* round(x, n) of the float x the code computed for num / den, counted in
\* units of the last decimal kept (den # 0): the nearest count; when
\* num / den lies exactly halfway between two counts, the floating-point
\* error of the computation decides between them, so both are outcomes
Round(num, den) ==
    LET n == IF den < 0 THEN -num ELSE num
        d == IF den < 0 THEN -den ELSE den
        q == n \div d
        r == n - q * d
    IN  IF 2 * r = d THEN {q, q + 1}
        ELSE IF 2 * r < d THEN {q}
        ELSE {q + 1}

-----------------------------------------------------------------------------
(* PageSource: holder rows in pages of PageSize, descending by quantity *)

\* quantity of the i-th largest holder (the ledger serves rows in this order)
QuantityOf(i) ==
    IF i = 1 THEN 500
    ELSE IF i <= 10 THEN 20
    ELSE IF i <= 50 THEN 5
    ELSE 1

HolderRow(q) == [address |-> "addr", quantity |-> q]

LastPage(t) == (t + PageSize - 1) \div PageSize

\* number of rows on page p when the asset has t holder rows
PageLen(t, p) ==
    IF p < LastPage(t) THEN PageSize
    ELSE IF p = LastPage(t) THEN t - (LastPage(t) - 1) * PageSize
    ELSE 0

\* the rows of page p
PageRows(t, p) ==
    [k \in 1..PageLen(t, p) |-> HolderRow(QuantityOf((p - 1) * PageSize + k))]

\* as check_page_sync without the status check: the error body of a failed
\* request is taken for the rows of the page
CheckPageSyncUnchecked(t, page_num, fails) ==
    IF fails THEN <<HolderRow(0), HolderRow(0), HolderRow(0)>>
    ELSE PageRows(t, page_num)

\* as check_page_sync, answering with the rows of the page after page_num
CheckPageSyncOffByOne(t, page_num, fails) ==
    IF fails THEN <<>> ELSE PageRows(t, page_num + 1)

\* check_page_sync: a failed request (an exception, a status other than 200)
\* is answered with the empty list
check_page_sync(t, page_num, fails) ==
    IF fails THEN <<>> ELSE PageRows(t, page_num)

-----------------------------------------------------------------------------
(* analyze_holder_distribution and _calculate_gini *)

\* rows[a..b] summed by halves (a sum of integers, in any order)
RECURSIVE SumRange(_, _, _)
SumRange(rows, a, b) ==
    IF a > b THEN 0
    ELSE IF a = b THEN rows[a].quantity
    ELSE LET m == (a + b) \div 2
         IN  SumRange(rows, a, m) + SumRange(rows, m + 1, b)

\* sum(h["quantity"] for h in rows)
SumQuantity(rows) == SumRange(rows, 1, Len(rows))

\* as Prefix, with the top-50 slice starting after the top 10
PrefixSkipTop(rows, k) ==
    SubSeq(rows, IF k > 10 THEN 11 ELSE 1, IF k < Len(rows) THEN k ELSE Len(rows))

\* rows[:k]
Prefix(rows, k) == SubSeq(rows, 1, Min(k, Len(rows)))

IsMarker(h) == h.address = TOTAL_HOLDERS

\* [x for x in holders if x.get("address") != "__TOTAL_HOLDERS__"]
WithoutMarker(hs) == SelectSeq(hs, LAMBDA h : ~IsMarker(h))

\* the loop of lines 271-275: the first marker row decides total_count and
\* removes every marker row; without one the list is left as it is
HasMarker(hs) == \E i \in 1..Len(hs) : IsMarker(hs[i])

FirstMarker(hs) ==
    hs[CHOOSE i \in 1..Len(hs) :
          IsMarker(hs[i]) /\ \A j \in 1..(i - 1) : ~IsMarker(hs[j])]

TotalCount(hs) ==
    IF HasMarker(hs)
    THEN IF "total_count" \in DOMAIN FirstMarker(hs)
         THEN FirstMarker(hs).total_count
         ELSE Len(hs)
    ELSE Len(hs)

\* as VisibleRows, with the marker row left among the rows
VisibleRowsKeepMarker(hs) == hs

VisibleRows(hs) == IF HasMarker(hs) THEN WithoutMarker(hs) ELSE hs

\* lines 278-279: the concentration denominator
Denominator(rows, supply) ==
    IF supply <= 0 THEN SumQuantity(rows) ELSE supply

\* lines 282-287 and the round(.., 2) of lines 294-295, in hundredths of a
\* percent: the values the call can report
ConcentrationPct(rows, k, denom) ==
    IF denom > 0
    THEN Round(SumQuantity(Prefix(rows, k)) * 100 * 100, denom)
    ELSE {0}

\* as SortedHoldings, without the sort
UnsortedHoldings(rows) == [i \in 1..Len(rows) |-> rows[i].quantity]

\* sorted([h["quantity"] for h in holders])
SortedHoldings(rows) ==
    SortSeq([i \in 1..Len(rows) |-> rows[i].quantity], LAMBDA a, b : a < b)

\* the terms (n - i) * val of sorted[a..b], i from 0, summed by halves
RECURSIVE CumSumRange(_, _, _, _)
CumSumRange(sorted, n, a, b) ==
    IF a > b THEN 0
    ELSE IF a = b THEN (n - (a - 1)) * sorted[a]
    ELSE LET m == (a + b) \div 2
         IN  CumSumRange(sorted, n, a, m) + CumSumRange(sorted, n, m + 1, b)

\* cumsum += (n - i) * val for i, val in enumerate(sorted_holdings)
GiniCumSum(sorted, n) == CumSumRange(sorted, n, 1, n)

\* max(0, min(1, num / den)) as a fraction <<num, den>> with den > 0
Clamp01(num, den) ==
    LET n == IF den < 0 THEN -num ELSE num
        d == IF den < 0 THEN -den ELSE den
    IN  IF n >= d THEN <<1, 1>>
        ELSE IF n <= 0 THEN <<0, 1>>
        ELSE <<n, d>>

\* as CalculateGini, with 0.0 for no rows and for a zero total supply
CalculateGiniZeroDefault(rows, supply) ==
    IF rows = <<>> \/ supply = 0 THEN <<0, 1>>
    ELSE LET sorted == SortedHoldings(rows)
             n == Len(sorted)
             cumsum == GiniCumSum(sorted, n)
         IN  Clamp01(2 * cumsum - (n + 1) * supply, n * supply)

\* _calculate_gini: the exact value, as a fraction
CalculateGini(rows, supply) ==
    IF rows = <<>> \/ supply = 0 THEN <<1, 1>>
    ELSE LET sorted == SortedHoldings(rows)
             n == Len(sorted)
             cumsum == GiniCumSum(sorted, n)
         IN  \* (2 * cumsum) / (n * supply) - (n + 1) / n
             Clamp01(2 * cumsum - (n + 1) * supply, n * supply)

\* as EmptySnapshot, with zero statistics for no holders
EmptySnapshotZero ==
    [total_holders |-> 0,
     top_10_concentration |-> 0,
     top_50_concentration |-> 0,
     gini_coefficient |-> 0]

\* lines 261-267
EmptySnapshot ==
    [total_holders |-> 0,
     top_10_concentration |-> 10000,
     top_50_concentration |-> 10000,
     gini_coefficient |-> 1000]

\* analyze_holder_distribution: the dicts the call can return.  The two
\* concentrations are computed alike, so that equal sums are rounded alike
AnalyzeHolderDistribution(hs, supply) ==
    IF hs = <<>> THEN {EmptySnapshot}
    ELSE LET rows == VisibleRows(hs)
             denom == Denominator(rows, supply)
             gini == CalculateGini(rows, denom)
             same == SumQuantity(Prefix(rows, 10))
                         = SumQuantity(Prefix(rows, 50))
             top == {t \in ConcentrationPct(rows, 10, denom)
                            \X ConcentrationPct(rows, 50, denom) :
                        same => t[1] = t[2]}
         IN  {[total_holders |-> TotalCount(hs),
               top_10_concentration |-> t[1],
               top_50_concentration |-> t[2],
               gini_coefficient |-> g] :
                 t \in top, g \in Round(gini[1] * 1000, gini[2])}

\* the call is deterministic: analyses a of hs and b of gs with the same
\* total supply round alike each float they compute from the same numbers
\* (the Gini coefficient from the sorted quantities, a concentration from
\* the sum of the leading rows)
RoundedAlike(hs, a, gs, b, supply) ==
    LET rows == VisibleRows(hs)
        other == VisibleRows(gs)
        alike == /\ hs # <<>>
                 /\ gs # <<>>
                 /\ Denominator(rows, supply) = Denominator(other, supply)
        sum(r, k) == SumQuantity(Prefix(r, k))
    IN  /\ alike /\ SortedHoldings(rows) = SortedHoldings(other)
              => a.gini_coefficient = b.gini_coefficient
        /\ alike /\ sum(rows, 10) = sum(other, 10)
              => a.top_10_concentration = b.top_10_concentration
        /\ alike /\ sum(rows, 50) = sum(other, 50)
              => a.top_50_concentration = b.top_50_concentration

NoSnapshot == [total_holders |-> -1]

\* the TypeError of `total_supply <= 0` (line 278) when total_supply is None
RaisedTypeError == [raised |-> "TypeError"]

\* analyze_holder_distribution(holders, None): the empty list returns before
\* total_supply is read; otherwise the marker loop runs and line 278 raises
AnalyzeHolderDistributionNone(hs) ==
    IF hs = <<>> THEN EmptySnapshot ELSE RaisedTypeError

-----------------------------------------------------------------------------
(* TokenAnalysisAgent._calculate_readiness_score                           *)
(*                                                                         *)
(* Amounts in USD and the metadata and contract-risk scores are integers,  *)
(* top_10_concentration is in hundredths of a percent as the analyzer      *)
(* reports it.  A score is an exact fraction <<num, den>> in lowest terms  *)
(* with den > 0 until the ReadinessScore rounds it to 1 decimal; the       *)
(* fields of a ReadinessScore are integers in tenths (1000 is 100.0).      *)
(* An Optional value is <<>> for None and <<v>> for v.                     *)

None == <<>>
Some(v) == <<v>>

Abs(x) == IF x < 0 THEN -x ELSE x

RECURSIVE GCD(_, _)
GCD(a, b) == IF b = 0 THEN a ELSE GCD(b, a % b)

\* num / den in lowest terms, den # 0
Frac(num, den) ==
    LET n == IF den < 0 THEN -num ELSE num
        d == IF den < 0 THEN -den ELSE den
        g == GCD(Abs(n), d)
    IN  <<n \div g, d \div g>>

FracAdd(f, g) ==
    LET l == (f[2] \div GCD(f[2], g[2])) * g[2]
    IN  Frac(f[1] * (l \div f[2]) + g[1] * (l \div g[2]), l)

\* f * (k / m)
FracTimes(f, k, m) ==
    LET a == Frac(f[1], m)
        b == Frac(k, f[2])
    IN  Frac(a[1] * b[1], a[2] * b[2])

FracLeq(f, g) == f[1] * g[2] <= g[1] * f[2]
FracMin(f, g) == IF FracLeq(f, g) THEN f ELSE g
FracMax(f, g) == IF FracLeq(f, g) THEN g ELSE f

\* round(x, 1) of the float x the code computed for the exact value f: the
\* nearest tenth; when f lies exactly halfway between two tenths, the
\* floating-point error of the computation decides between them
Roundings(f) == Round(f[1] * 10, f[2])

\* as HasMarketData, reading the bundle's market_data_available flag
HasMarketDataFlag(m) == m.market_data_available

\* line 125
HasMarketData(m) == m.liquidity_usd # None /\ m.volume_24h # None

\* lines 127-139
LiquidityScore(m) ==
    IF HasMarketData(m) /\ m.liquidity_usd # None
    THEN LET liquidity == m.liquidity_usd[1]
         IN  IF liquidity >= 100000 THEN <<100, 1>>
             ELSE IF liquidity >= 50000
             THEN FracAdd(<<70, 1>>, Frac((liquidity - 50000) * 30, 50000))
             ELSE IF liquidity >= 10000
             THEN FracAdd(<<40, 1>>, Frac((liquidity - 10000) * 30, 40000))
             ELSE Frac(liquidity * 40, 10000)
    ELSE <<0, 1>>

\* lines 143-151: the score of the top-10 concentration
ConcentrationScore(top_10) ==
    IF top_10 <= 2000 THEN <<100, 1>>
    ELSE IF top_10 <= 4000
    THEN FracAdd(<<80, 1>>, Frac(-(top_10 - 2000) * 30, 2000))
    ELSE IF top_10 <= 6000
    THEN FracAdd(<<50, 1>>, Frac(-(top_10 - 4000) * 30, 2000))
    ELSE FracMax(<<0, 1>>, FracAdd(<<20, 1>>, Frac(-(top_10 - 6000) * 20, 4000)))

\* as HolderBonus, added without the cap
HolderBonusUncapped(holder_score, holder_count) ==
    IF holder_count >= 10000 THEN FracAdd(holder_score, <<20, 1>>)
    ELSE IF holder_count >= 1000 THEN FracAdd(holder_score, <<10, 1>>)
    ELSE IF holder_count >= 500 THEN FracAdd(holder_score, <<5, 1>>)
    ELSE holder_score

\* lines 153-159: the bonus for the holder count
HolderBonus(holder_score, holder_count) ==
    IF holder_count >= 10000
    THEN FracMin(<<100, 1>>, FracAdd(holder_score, <<20, 1>>))
    ELSE IF holder_count >= 1000
    THEN FracMin(<<100, 1>>, FracAdd(holder_score, <<10, 1>>))
    ELSE IF holder_count >= 500
    THEN FracMin(<<100, 1>>, FracAdd(holder_score, <<5, 1>>))
    ELSE holder_score

HolderScore(m) ==
    HolderBonus(ConcentrationScore(m.top_10_concentration), m.holder_count)

\* lines 170-180; `metrics.liquidity_usd and ...` is false for 0
MarketActivityScore(m) ==
    IF /\ HasMarketData(m)
       /\ m.liquidity_usd # None
       /\ m.liquidity_usd[1] # 0
       /\ m.liquidity_usd[1] > 0
       /\ m.volume_24h # None
    THEN LET volume == m.volume_24h[1]
             liquidity == m.liquidity_usd[1]
         IN  \* volume_ratio = volume / liquidity against 0.15 and 0.05
             IF 100 * volume >= 15 * liquidity THEN <<100, 1>>
             ELSE IF 100 * volume >= 5 * liquidity
             THEN \* 60 + (volume_ratio - 0.05) / 0.1 * 40
                  FracAdd(<<60, 1>>,
                          Frac((20 * volume - liquidity) * 40, 2 * liquidity))
             ELSE \* volume_ratio / 0.05 * 60
                  Frac(20 * volume * 60, liquidity)
    ELSE <<0, 1>>

\* line 168
SupplyStabilityScore == <<85, 1>>

\* lines 184-191
MarketWeightedTotal(liq, hold, meta, sec, stab, mkt) ==
    FracAdd(FracAdd(FracAdd(FracTimes(liq, 30, 100), FracTimes(hold, 25, 100)),
                    FracAdd(FracTimes(meta, 15, 100), FracTimes(sec, 15, 100))),
            FracAdd(FracTimes(stab, 10, 100), FracTimes(mkt, 5, 100)))

\* lines 194-199
OnChainWeightedTotal(hold, meta, sec, stab) ==
    FracAdd(FracAdd(FracTimes(hold, 40, 100), FracTimes(meta, 25, 100)),
            FracAdd(FracTimes(sec, 25, 100), FracTimes(stab, 10, 100)))

\* lines 182-199: the exact value of the weighted sum; the float the code
\* holds lies within a few units of the last place of it, which shows only
\* in the grade of a total on a threshold and in the rounding of a tie
TotalScore(m) ==
    IF HasMarketData(m)
    THEN MarketWeightedTotal(LiquidityScore(m), HolderScore(m),
                             <<m.metadata_score, 1>>,
                             <<m.contract_risk_score, 1>>,
                             SupplyStabilityScore, MarketActivityScore(m))
    ELSE OnChainWeightedTotal(HolderScore(m), <<m.metadata_score, 1>>,
                              <<m.contract_risk_score, 1>>,
                              SupplyStabilityScore)

\* lines 202-211: the grades the branches can give.  They test the float
\* the code summed, which lies within a few units of the last place of the
\* exact total_score: a total exactly on a threshold can come out just
\* below it (70 * 0.30 + 76.2 * 0.25 + 1 * 0.15 + 42 * 0.15 + 85 * 0.10
\* is 54.99999999999999) and take the next branch; any other total of
\* integer amounts is further from a threshold than the error
Grade(total_score) ==
    LET branch(t) ==
            IF FracLeq(<<85, 1>>, t) THEN "A"
            ELSE IF FracLeq(<<70, 1>>, t) THEN "B"
            ELSE IF FracLeq(<<55, 1>>, t) THEN "C"
            ELSE IF FracLeq(<<40, 1>>, t) THEN "D"
            ELSE "F"
    IN  IF total_score \in {<<85, 1>>, <<70, 1>>, <<55, 1>>, <<40, 1>>}
        THEN {branch(total_score), branch(FracAdd(total_score, <<-1, 1>>))}
        ELSE {branch(total_score)}

\* pydantic rejects a ReadinessScore whose total_score is outside [0, 100]
\* (schemas.py line 39)
RaisedValidationError == [raised |-> "ValidationError"]

\* lines 213-222: the ReadinessScore constructor validates total_score
Validated(score) ==
    IF score.total_score < 0 \/ score.total_score > 1000
    THEN RaisedValidationError
    ELSE score

\* _calculate_readiness_score: the outcomes the call can have
CalculateReadinessScore(m) ==
    {Validated(score) :
        score \in [total_score : Roundings(TotalScore(m)),
                   liquidity_score : Roundings(LiquidityScore(m)),
                   holder_distribution_score : Roundings(HolderScore(m)),
                   metadata_score : Roundings(<<m.metadata_score, 1>>),
                   security_score : Roundings(<<m.contract_risk_score, 1>>),
                   supply_stability_score : Roundings(SupplyStabilityScore),
                   market_activity_score : Roundings(MarketActivityScore(m)),
                   grade : Grade(TotalScore(m))]}

NoMetrics == [holder_count |-> -1]
NoScore == [grade |-> "none"]

\* the scorer has not been called
ScorerIdle ==
    /\ metrics = NoMetrics
    /\ readiness = NoScore

-----------------------------------------------------------------------------
(* EcosystemBridgeAgent._prioritize_issues                                  *)
(*                                                                         *)
(* exchange_scores is the dict in insertion order: a sequence of           *)
(* [exchange, gaps].  liquidity_gap_usd is in USD,                         *)
(* concentration_improvement_needed in hundredths of a percentage point.   *)

\* as LiquidityIssue, with a shortfall of 50,000 already high
LiquidityIssueAtLeast(e) ==
    IF e.gaps.liquidity_gap_usd > 0
    THEN <<[exchange |-> e.exchange,
            issue |-> "liquidity",
            gap |-> e.gaps.liquidity_gap_usd,
            priority |-> IF e.gaps.liquidity_gap_usd >= 50000
                         THEN "high" ELSE "medium"]>>
    ELSE <<>>

\* lines 503-509
LiquidityIssue(e) ==
    IF e.gaps.liquidity_gap_usd > 0
    THEN <<[exchange |-> e.exchange,
            issue |-> "liquidity",
            gap |-> e.gaps.liquidity_gap_usd,
            priority |-> IF e.gaps.liquidity_gap_usd > 50000
                         THEN "high" ELSE "medium"]>>
    ELSE <<>>

\* lines 511-517
ConcentrationIssue(e) ==
    IF e.gaps.concentration_improvement_needed > 0
    THEN <<[exchange |-> e.exchange,
            issue |-> "holder_concentration",
            gap |-> e.gaps.concentration_improvement_needed,
            priority |-> IF e.gaps.concentration_improvement_needed > 1000
                         THEN "high" ELSE "medium"]>>
    ELSE <<>>

\* lines 519-525
AuditIssue(e) ==
    IF e.gaps.audit_needed
    THEN <<[exchange |-> e.exchange,
            issue |-> "audit_missing",
            gap |-> "Required",
            priority |-> "high"]>>
    ELSE <<>>

\* lines 499-525: all_issues after the first k exchanges
RECURSIVE AllIssues(_, _)
AllIssues(scores, k) ==
    IF k = 0 THEN <<>>
    ELSE AllIssues(scores, k - 1) \o LiquidityIssue(scores[k])
             \o ConcentrationIssue(scores[k]) \o AuditIssue(scores[k])

\* priority_order.get(x["priority"], 2)
PriorityOrder(issue) ==
    IF issue.priority = "high" THEN 0
    ELSE IF issue.priority = "medium" THEN 1
    ELSE 2

\* as SortByPriority, for a sort that reverses the issues of equal priority
SortByPriorityUnstable(issues) ==
    LET reversed == [i \in 1..Len(issues) |-> issues[Len(issues) + 1 - i]]
    IN  SelectSeq(reversed, LAMBDA x : PriorityOrder(x) = 0)
            \o SelectSeq(reversed, LAMBDA x : PriorityOrder(x) = 1)
            \o SelectSeq(reversed, LAMBDA x : PriorityOrder(x) = 2)

\* as SortByPriority, without the sort
UnsortedIssues(issues) == issues

\* lines 528-529: list.sort is stable
SortByPriority(issues) ==
    SelectSeq(issues, LAMBDA x : PriorityOrder(x) = 0)
        \o SelectSeq(issues, LAMBDA x : PriorityOrder(x) = 1)
        \o SelectSeq(issues, LAMBDA x : PriorityOrder(x) = 2)

\* _prioritize_issues
PrioritizeIssues(scores) == SortByPriority(AllIssues(scores, Len(scores)))

\* An exchange name is the sequence of the Unicode code points of its
\* characters, "Kraken" being <<75, 114, 97, 107, 101, 110>>.

\* EcosystemBridgeAgent.TARGET_EXCHANGES (line 77):
\* ["binance", "coinbase", "kraken", "kucoin", "gateio"]
TARGET_EXCHANGES ==
    <<<<98, 105, 110, 97, 110, 99, 101>>,
      <<99, 111, 105, 110, 98, 97, 115, 101>>,
      <<107, 114, 97, 107, 101, 110>>,
      <<107, 117, 99, 111, 105, 110>>,
      <<103, 97, 116, 101, 105, 111>>>>

\* The case tables str.lower() reads (CPython 3.11, Unicode 14.0), over the
\* code points 0..1114111, as rows <<table, first, last, step, delta>>: the
\* row is about the code points first, first + step, .., last.  "lower":
\* the lower-case form is the code point + delta (U+0130 and U+03A3 are
\* treated in Lower).  "case_ignorable": the code point is case ignorable.
\* "cased": it is cased and not case ignorable.
UnicodeCase ==
    {<<"lower", 65, 90, 1, 32>>, <<"lower", 192, 214, 1, 32>>,
     <<"lower", 216, 222, 1, 32>>, <<"lower", 256, 302, 2, 1>>,
     <<"lower", 306, 310, 2, 1>>, <<"lower", 313, 327, 2, 1>>,
     <<"lower", 330, 374, 2, 1>>, <<"lower", 376, 376, 1, -121>>,
     <<"lower", 377, 381, 2, 1>>, <<"lower", 385, 385, 1, 210>>,
     <<"lower", 386, 388, 2, 1>>, <<"lower", 390, 390, 1, 206>>,
     <<"lower", 391, 391, 1, 1>>, <<"lower", 393, 394, 1, 205>>,
     <<"lower", 395, 395, 1, 1>>, <<"lower", 398, 398, 1, 79>>,
     <<"lower", 399, 399, 1, 202>>, <<"lower", 400, 400, 1, 203>>,
     <<"lower", 401, 401, 1, 1>>, <<"lower", 403, 403, 1, 205>>,
     <<"lower", 404, 404, 1, 207>>, <<"lower", 406, 406, 1, 211>>,
     <<"lower", 407, 407, 1, 209>>, <<"lower", 408, 408, 1, 1>>,
     <<"lower", 412, 412, 1, 211>>, <<"lower", 413, 413, 1, 213>>,
     <<"lower", 415, 415, 1, 214>>, <<"lower", 416, 420, 2, 1>>,
     <<"lower", 422, 422, 1, 218>>, <<"lower", 423, 423, 1, 1>>,
     <<"lower", 425, 425, 1, 218>>, <<"lower", 428, 428, 1, 1>>,
     <<"lower", 430, 430, 1, 218>>, <<"lower", 431, 431, 1, 1>>,
     <<"lower", 433, 434, 1, 217>>, <<"lower", 435, 437, 2, 1>>,
     <<"lower", 439, 439, 1, 219>>, <<"lower", 440, 440, 1, 1>>,
     <<"lower", 444, 444, 1, 1>>, <<"lower", 452, 452, 1, 2>>,
     <<"lower", 453, 453, 1, 1>>, <<"lower", 455, 455, 1, 2>>,
     <<"lower", 456, 456, 1, 1>>, <<"lower", 458, 458, 1, 2>>,
     <<"lower", 459, 475, 2, 1>>, <<"lower", 478, 494, 2, 1>>,
     <<"lower", 497, 497, 1, 2>>, <<"lower", 498, 500, 2, 1>>,
     <<"lower", 502, 502, 1, -97>>, <<"lower", 503, 503, 1, -56>>,
     <<"lower", 504, 542, 2, 1>>, <<"lower", 544, 544, 1, -130>>,
     <<"lower", 546, 562, 2, 1>>, <<"lower", 570, 570, 1, 10795>>,
     <<"lower", 571, 571, 1, 1>>, <<"lower", 573, 573, 1, -163>>,
     <<"lower", 574, 574, 1, 10792>>, <<"lower", 577, 577, 1, 1>>,
     <<"lower", 579, 579, 1, -195>>, <<"lower", 580, 580, 1, 69>>,
     <<"lower", 581, 581, 1, 71>>, <<"lower", 582, 590, 2, 1>>,
     <<"lower", 880, 882, 2, 1>>, <<"lower", 886, 886, 1, 1>>,
     <<"lower", 895, 895, 1, 116>>, <<"lower", 902, 902, 1, 38>>,
     <<"lower", 904, 906, 1, 37>>, <<"lower", 908, 908, 1, 64>>,
     <<"lower", 910, 911, 1, 63>>, <<"lower", 913, 929, 1, 32>>,
     <<"lower", 932, 939, 1, 32>>, <<"lower", 975, 975, 1, 8>>,
     <<"lower", 984, 1006, 2, 1>>, <<"lower", 1012, 1012, 1, -60>>,
     <<"lower", 1015, 1015, 1, 1>>, <<"lower", 1017, 1017, 1, -7>>,
     <<"lower", 1018, 1018, 1, 1>>, <<"lower", 1021, 1023, 1, -130>>,
     <<"lower", 1024, 1039, 1, 80>>, <<"lower", 1040, 1071, 1, 32>>,
     <<"lower", 1120, 1152, 2, 1>>, <<"lower", 1162, 1214, 2, 1>>,
     <<"lower", 1216, 1216, 1, 15>>, <<"lower", 1217, 1229, 2, 1>>,
     <<"lower", 1232, 1326, 2, 1>>, <<"lower", 1329, 1366, 1, 48>>,
     <<"lower", 4256, 4293, 1, 7264>>, <<"lower", 4295, 4295, 1, 7264>>,
     <<"lower", 4301, 4301, 1, 7264>>, <<"lower", 5024, 5103, 1, 38864>>,
     <<"lower", 5104, 5109, 1, 8>>, <<"lower", 7312, 7354, 1, -3008>>,
     <<"lower", 7357, 7359, 1, -3008>>, <<"lower", 7680, 7828, 2, 1>>,
     <<"lower", 7838, 7838, 1, -7615>>, <<"lower", 7840, 7934, 2, 1>>,
     <<"lower", 7944, 7951, 1, -8>>, <<"lower", 7960, 7965, 1, -8>>,
     <<"lower", 7976, 7983, 1, -8>>, <<"lower", 7992, 7999, 1, -8>>,
     <<"lower", 8008, 8013, 1, -8>>, <<"lower", 8025, 8031, 2, -8>>,
     <<"lower", 8040, 8047, 1, -8>>, <<"lower", 8072, 8079, 1, -8>>,
     <<"lower", 8088, 8095, 1, -8>>, <<"lower", 8104, 8111, 1, -8>>,
     <<"lower", 8120, 8121, 1, -8>>, <<"lower", 8122, 8123, 1, -74>>,
     <<"lower", 8124, 8124, 1, -9>>, <<"lower", 8136, 8139, 1, -86>>,
     <<"lower", 8140, 8140, 1, -9>>, <<"lower", 8152, 8153, 1, -8>>,
     <<"lower", 8154, 8155, 1, -100>>, <<"lower", 8168, 8169, 1, -8>>,
     <<"lower", 8170, 8171, 1, -112>>, <<"lower", 8172, 8172, 1, -7>>,
     <<"lower", 8184, 8185, 1, -128>>, <<"lower", 8186, 8187, 1, -126>>,
     <<"lower", 8188, 8188, 1, -9>>, <<"lower", 8486, 8486, 1, -7517>>,
     <<"lower", 8490, 8490, 1, -8383>>, <<"lower", 8491, 8491, 1, -8262>>,
     <<"lower", 8498, 8498, 1, 28>>, <<"lower", 8544, 8559, 1, 16>>,
     <<"lower", 8579, 8579, 1, 1>>, <<"lower", 9398, 9423, 1, 26>>,
     <<"lower", 11264, 11311, 1, 48>>, <<"lower", 11360, 11360, 1, 1>>,
     <<"lower", 11362, 11362, 1, -10743>>,
     <<"lower", 11363, 11363, 1, -3814>>,
     <<"lower", 11364, 11364, 1, -10727>>, <<"lower", 11367, 11371, 2, 1>>,
     <<"lower", 11373, 11373, 1, -10780>>,
     <<"lower", 11374, 11374, 1, -10749>>,
     <<"lower", 11375, 11375, 1, -10783>>,
     <<"lower", 11376, 11376, 1, -10782>>, <<"lower", 11378, 11378, 1, 1>>,
     <<"lower", 11381, 11381, 1, 1>>, <<"lower", 11390, 11391, 1, -10815>>,
     <<"lower", 11392, 11490, 2, 1>>, <<"lower", 11499, 11501, 2, 1>>,
     <<"lower", 11506, 11506, 1, 1>>, <<"lower", 42560, 42604, 2, 1>>,
     <<"lower", 42624, 42650, 2, 1>>, <<"lower", 42786, 42798, 2, 1>>,
     <<"lower", 42802, 42862, 2, 1>>, <<"lower", 42873, 42875, 2, 1>>,
     <<"lower", 42877, 42877, 1, -35332>>, <<"lower", 42878, 42886, 2, 1>>,
     <<"lower", 42891, 42891, 1, 1>>, <<"lower", 42893, 42893, 1, -42280>>,
     <<"lower", 42896, 42898, 2, 1>>, <<"lower", 42902, 42920, 2, 1>>,
     <<"lower", 42922, 42922, 1, -42308>>,
     <<"lower", 42923, 42923, 1, -42319>>,
     <<"lower", 42924, 42924, 1, -42315>>,
     <<"lower", 42925, 42925, 1, -42305>>,
     <<"lower", 42926, 42926, 1, -42308>>,
     <<"lower", 42928, 42928, 1, -42258>>,
     <<"lower", 42929, 42929, 1, -42282>>,
     <<"lower", 42930, 42930, 1, -42261>>,
     <<"lower", 42931, 42931, 1, 928>>, <<"lower", 42932, 42946, 2, 1>>,
     <<"lower", 42948, 42948, 1, -48>>,
     <<"lower", 42949, 42949, 1, -42307>>,
     <<"lower", 42950, 42950, 1, -35384>>, <<"lower", 42951, 42953, 2, 1>>,
     <<"lower", 42960, 42960, 1, 1>>, <<"lower", 42966, 42968, 2, 1>>,
     <<"lower", 42997, 42997, 1, 1>>, <<"lower", 65313, 65338, 1, 32>>,
     <<"lower", 66560, 66599, 1, 40>>, <<"lower", 66736, 66771, 1, 40>>,
     <<"lower", 66928, 66938, 1, 39>>, <<"lower", 66940, 66954, 1, 39>>,
     <<"lower", 66956, 66962, 1, 39>>, <<"lower", 66964, 66965, 1, 39>>,
     <<"lower", 68736, 68786, 1, 64>>, <<"lower", 71840, 71871, 1, 32>>,
     <<"lower", 93760, 93791, 1, 32>>, <<"lower", 125184, 125217, 1, 34>>,
     <<"case_ignorable", 39, 39, 1, 0>>, <<"case_ignorable", 46, 46, 1, 0>>,
     <<"case_ignorable", 58, 58, 1, 0>>, <<"case_ignorable", 94, 96, 2, 0>>,
     <<"case_ignorable", 168, 168, 1, 0>>,
     <<"case_ignorable", 173, 175, 2, 0>>,
     <<"case_ignorable", 180, 180, 1, 0>>,
     <<"case_ignorable", 183, 184, 1, 0>>,
     <<"case_ignorable", 688, 879, 1, 0>>,
     <<"case_ignorable", 884, 885, 1, 0>>,
     <<"case_ignorable", 890, 890, 1, 0>>,
     <<"case_ignorable", 900, 901, 1, 0>>,
     <<"case_ignorable", 903, 903, 1, 0>>,
     <<"case_ignorable", 1155, 1161, 1, 0>>,
     <<"case_ignorable", 1369, 1369, 1, 0>>,
     <<"case_ignorable", 1375, 1375, 1, 0>>,
     <<"case_ignorable", 1425, 1469, 1, 0>>,
     <<"case_ignorable", 1471, 1473, 2, 0>>,
     <<"case_ignorable", 1474, 1476, 2, 0>>,
     <<"case_ignorable", 1477, 1479, 2, 0>>,
     <<"case_ignorable", 1524, 1524, 1, 0>>,
     <<"case_ignorable", 1536, 1541, 1, 0>>,
     <<"case_ignorable", 1552, 1562, 1, 0>>,
     <<"case_ignorable", 1564, 1564, 1, 0>>,
     <<"case_ignorable", 1600, 1600, 1, 0>>,
     <<"case_ignorable", 1611, 1631, 1, 0>>,
     <<"case_ignorable", 1648, 1648, 1, 0>>,
     <<"case_ignorable", 1750, 1757, 1, 0>>,
     <<"case_ignorable", 1759, 1768, 1, 0>>,
     <<"case_ignorable", 1770, 1773, 1, 0>>,
     <<"case_ignorable", 1807, 1809, 2, 0>>,
     <<"case_ignorable", 1840, 1866, 1, 0>>,
     <<"case_ignorable", 1958, 1968, 1, 0>>,
     <<"case_ignorable", 2027, 2037, 1, 0>>,
     <<"case_ignorable", 2042, 2042, 1, 0>>,
     <<"case_ignorable", 2045, 2045, 1, 0>>,
     <<"case_ignorable", 2070, 2093, 1, 0>>,
     <<"case_ignorable", 2137, 2139, 1, 0>>,
     <<"case_ignorable", 2184, 2184, 1, 0>>,
     <<"case_ignorable", 2192, 2193, 1, 0>>,
     <<"case_ignorable", 2200, 2207, 1, 0>>,
     <<"case_ignorable", 2249, 2306, 1, 0>>,
     <<"case_ignorable", 2362, 2364, 2, 0>>,
     <<"case_ignorable", 2369, 2376, 1, 0>>,
     <<"case_ignorable", 2381, 2381, 1, 0>>,
     <<"case_ignorable", 2385, 2391, 1, 0>>,
     <<"case_ignorable", 2402, 2403, 1, 0>>,
     <<"case_ignorable", 2417, 2417, 1, 0>>,
     <<"case_ignorable", 2433, 2433, 1, 0>>,
     <<"case_ignorable", 2492, 2492, 1, 0>>,
     <<"case_ignorable", 2497, 2500, 1, 0>>,
     <<"case_ignorable", 2509, 2509, 1, 0>>,
     <<"case_ignorable", 2530, 2531, 1, 0>>,
     <<"case_ignorable", 2558, 2558, 1, 0>>,
     <<"case_ignorable", 2561, 2562, 1, 0>>,
     <<"case_ignorable", 2620, 2620, 1, 0>>,
     <<"case_ignorable", 2625, 2626, 1, 0>>,
     <<"case_ignorable", 2631, 2632, 1, 0>>,
     <<"case_ignorable", 2635, 2637, 1, 0>>,
     <<"case_ignorable", 2641, 2641, 1, 0>>,
     <<"case_ignorable", 2672, 2673, 1, 0>>,
     <<"case_ignorable", 2677, 2677, 1, 0>>,
     <<"case_ignorable", 2689, 2690, 1, 0>>,
     <<"case_ignorable", 2748, 2748, 1, 0>>,
     <<"case_ignorable", 2753, 2757, 1, 0>>,
     <<"case_ignorable", 2759, 2760, 1, 0>>,
     <<"case_ignorable", 2765, 2765, 1, 0>>,
     <<"case_ignorable", 2786, 2787, 1, 0>>,
     <<"case_ignorable", 2810, 2815, 1, 0>>,
     <<"case_ignorable", 2817, 2817, 1, 0>>,
     <<"case_ignorable", 2876, 2876, 1, 0>>,
     <<"case_ignorable", 2879, 2881, 2, 0>>,
     <<"case_ignorable", 2882, 2884, 1, 0>>,
     <<"case_ignorable", 2893, 2893, 1, 0>>,
     <<"case_ignorable", 2901, 2902, 1, 0>>,
     <<"case_ignorable", 2914, 2915, 1, 0>>,
     <<"case_ignorable", 2946, 2946, 1, 0>>,
     <<"case_ignorable", 3008, 3008, 1, 0>>,
     <<"case_ignorable", 3021, 3021, 1, 0>>,
     <<"case_ignorable", 3072, 3072, 1, 0>>,
     <<"case_ignorable", 3076, 3076, 1, 0>>,
     <<"case_ignorable", 3132, 3134, 2, 0>>,
     <<"case_ignorable", 3135, 3136, 1, 0>>,
     <<"case_ignorable", 3142, 3144, 1, 0>>,
     <<"case_ignorable", 3146, 3149, 1, 0>>,
     <<"case_ignorable", 3157, 3158, 1, 0>>,
     <<"case_ignorable", 3170, 3171, 1, 0>>,
     <<"case_ignorable", 3201, 3201, 1, 0>>,
     <<"case_ignorable", 3260, 3260, 1, 0>>,
     <<"case_ignorable", 3263, 3263, 1, 0>>,
     <<"case_ignorable", 3270, 3270, 1, 0>>,
     <<"case_ignorable", 3276, 3277, 1, 0>>,
     <<"case_ignorable", 3298, 3299, 1, 0>>,
     <<"case_ignorable", 3328, 3329, 1, 0>>,
     <<"case_ignorable", 3387, 3388, 1, 0>>,
     <<"case_ignorable", 3393, 3396, 1, 0>>,
     <<"case_ignorable", 3405, 3405, 1, 0>>,
     <<"case_ignorable", 3426, 3427, 1, 0>>,
     <<"case_ignorable", 3457, 3457, 1, 0>>,
     <<"case_ignorable", 3530, 3530, 1, 0>>,
     <<"case_ignorable", 3538, 3540, 1, 0>>,
     <<"case_ignorable", 3542, 3542, 1, 0>>,
     <<"case_ignorable", 3633, 3633, 1, 0>>,
     <<"case_ignorable", 3636, 3642, 1, 0>>,
     <<"case_ignorable", 3654, 3662, 1, 0>>,
     <<"case_ignorable", 3761, 3761, 1, 0>>,
     <<"case_ignorable", 3764, 3772, 1, 0>>,
     <<"case_ignorable", 3782, 3784, 2, 0>>,
     <<"case_ignorable", 3785, 3789, 1, 0>>,
     <<"case_ignorable", 3864, 3865, 1, 0>>,
     <<"case_ignorable", 3893, 3897, 2, 0>>,
     <<"case_ignorable", 3953, 3966, 1, 0>>,
     <<"case_ignorable", 3968, 3972, 1, 0>>,
     <<"case_ignorable", 3974, 3975, 1, 0>>,
     <<"case_ignorable", 3981, 3991, 1, 0>>,
     <<"case_ignorable", 3993, 4028, 1, 0>>,
     <<"case_ignorable", 4038, 4038, 1, 0>>,
     <<"case_ignorable", 4141, 4144, 1, 0>>,
     <<"case_ignorable", 4146, 4151, 1, 0>>,
     <<"case_ignorable", 4153, 4154, 1, 0>>,
     <<"case_ignorable", 4157, 4158, 1, 0>>,
     <<"case_ignorable", 4184, 4185, 1, 0>>,
     <<"case_ignorable", 4190, 4192, 1, 0>>,
     <<"case_ignorable", 4209, 4212, 1, 0>>,
     <<"case_ignorable", 4226, 4226, 1, 0>>,
     <<"case_ignorable", 4229, 4230, 1, 0>>,
     <<"case_ignorable", 4237, 4237, 1, 0>>,
     <<"case_ignorable", 4253, 4253, 1, 0>>,
     <<"case_ignorable", 4348, 4348, 1, 0>>,
     <<"case_ignorable", 4957, 4959, 1, 0>>,
     <<"case_ignorable", 5906, 5908, 1, 0>>,
     <<"case_ignorable", 5938, 5939, 1, 0>>,
     <<"case_ignorable", 5970, 5971, 1, 0>>,
     <<"case_ignorable", 6002, 6003, 1, 0>>,
     <<"case_ignorable", 6068, 6069, 1, 0>>,
     <<"case_ignorable", 6071, 6077, 1, 0>>,
     <<"case_ignorable", 6086, 6086, 1, 0>>,
     <<"case_ignorable", 6089, 6099, 1, 0>>,
     <<"case_ignorable", 6103, 6103, 1, 0>>,
     <<"case_ignorable", 6109, 6109, 1, 0>>,
     <<"case_ignorable", 6155, 6159, 1, 0>>,
     <<"case_ignorable", 6211, 6211, 1, 0>>,
     <<"case_ignorable", 6277, 6278, 1, 0>>,
     <<"case_ignorable", 6313, 6313, 1, 0>>,
     <<"case_ignorable", 6432, 6434, 1, 0>>,
     <<"case_ignorable", 6439, 6440, 1, 0>>,
     <<"case_ignorable", 6450, 6450, 1, 0>>,
     <<"case_ignorable", 6457, 6459, 1, 0>>,
     <<"case_ignorable", 6679, 6680, 1, 0>>,
     <<"case_ignorable", 6683, 6683, 1, 0>>,
     <<"case_ignorable", 6742, 6744, 2, 0>>,
     <<"case_ignorable", 6745, 6750, 1, 0>>,
     <<"case_ignorable", 6752, 6754, 2, 0>>,
     <<"case_ignorable", 6757, 6764, 1, 0>>,
     <<"case_ignorable", 6771, 6780, 1, 0>>,
     <<"case_ignorable", 6783, 6783, 1, 0>>,
     <<"case_ignorable", 6823, 6823, 1, 0>>,
     <<"case_ignorable", 6832, 6862, 1, 0>>,
     <<"case_ignorable", 6912, 6915, 1, 0>>,
     <<"case_ignorable", 6964, 6966, 2, 0>>,
     <<"case_ignorable", 6967, 6970, 1, 0>>,
     <<"case_ignorable", 6972, 6972, 1, 0>>,
     <<"case_ignorable", 6978, 6978, 1, 0>>,
     <<"case_ignorable", 7019, 7027, 1, 0>>,
     <<"case_ignorable", 7040, 7041, 1, 0>>,
     <<"case_ignorable", 7074, 7077, 1, 0>>,
     <<"case_ignorable", 7080, 7081, 1, 0>>,
     <<"case_ignorable", 7083, 7085, 1, 0>>,
     <<"case_ignorable", 7142, 7144, 2, 0>>,
     <<"case_ignorable", 7145, 7145, 1, 0>>,
     <<"case_ignorable", 7149, 7151, 2, 0>>,
     <<"case_ignorable", 7152, 7153, 1, 0>>,
     <<"case_ignorable", 7212, 7219, 1, 0>>,
     <<"case_ignorable", 7222, 7223, 1, 0>>,
     <<"case_ignorable", 7288, 7293, 1, 0>>,
     <<"case_ignorable", 7376, 7378, 1, 0>>,
     <<"case_ignorable", 7380, 7392, 1, 0>>,
     <<"case_ignorable", 7394, 7400, 1, 0>>,
     <<"case_ignorable", 7405, 7405, 1, 0>>,
     <<"case_ignorable", 7412, 7412, 1, 0>>,
     <<"case_ignorable", 7416, 7417, 1, 0>>,
     <<"case_ignorable", 7468, 7530, 1, 0>>,
     <<"case_ignorable", 7544, 7544, 1, 0>>,
     <<"case_ignorable", 7579, 7679, 1, 0>>,
     <<"case_ignorable", 8125, 8127, 2, 0>>,
     <<"case_ignorable", 8128, 8129, 1, 0>>,
     <<"case_ignorable", 8141, 8143, 1, 0>>,
     <<"case_ignorable", 8157, 8159, 1, 0>>,
     <<"case_ignorable", 8173, 8175, 1, 0>>,
     <<"case_ignorable", 8189, 8190, 1, 0>>,
     <<"case_ignorable", 8203, 8207, 1, 0>>,
     <<"case_ignorable", 8216, 8217, 1, 0>>,
     <<"case_ignorable", 8228, 8228, 1, 0>>,
     <<"case_ignorable", 8231, 8231, 1, 0>>,
     <<"case_ignorable", 8234, 8238, 1, 0>>,
     <<"case_ignorable", 8288, 8292, 1, 0>>,
     <<"case_ignorable", 8294, 8303, 1, 0>>,
     <<"case_ignorable", 8305, 8305, 1, 0>>,
     <<"case_ignorable", 8319, 8319, 1, 0>>,
     <<"case_ignorable", 8336, 8348, 1, 0>>,
     <<"case_ignorable", 8400, 8432, 1, 0>>,
     <<"case_ignorable", 11388, 11389, 1, 0>>,
     <<"case_ignorable", 11503, 11505, 1, 0>>,
     <<"case_ignorable", 11631, 11631, 1, 0>>,
     <<"case_ignorable", 11647, 11647, 1, 0>>,
     <<"case_ignorable", 11744, 11775, 1, 0>>,
     <<"case_ignorable", 11823, 11823, 1, 0>>,
     <<"case_ignorable", 12293, 12293, 1, 0>>,
     <<"case_ignorable", 12330, 12333, 1, 0>>,
     <<"case_ignorable", 12337, 12341, 1, 0>>,
     <<"case_ignorable", 12347, 12347, 1, 0>>,
     <<"case_ignorable", 12441, 12446, 1, 0>>,
     <<"case_ignorable", 12540, 12542, 1, 0>>,
     <<"case_ignorable", 40981, 40981, 1, 0>>,
     <<"case_ignorable", 42232, 42237, 1, 0>>,
     <<"case_ignorable", 42508, 42508, 1, 0>>,
     <<"case_ignorable", 42607, 42610, 1, 0>>,
     <<"case_ignorable", 42612, 42621, 1, 0>>,
     <<"case_ignorable", 42623, 42623, 1, 0>>,
     <<"case_ignorable", 42652, 42655, 1, 0>>,
     <<"case_ignorable", 42736, 42737, 1, 0>>,
     <<"case_ignorable", 42752, 42785, 1, 0>>,
     <<"case_ignorable", 42864, 42864, 1, 0>>,
     <<"case_ignorable", 42888, 42890, 1, 0>>,
     <<"case_ignorable", 42994, 42996, 1, 0>>,
     <<"case_ignorable", 43000, 43001, 1, 0>>,
     <<"case_ignorable", 43010, 43010, 1, 0>>,
     <<"case_ignorable", 43014, 43014, 1, 0>>,
     <<"case_ignorable", 43019, 43019, 1, 0>>,
     <<"case_ignorable", 43045, 43046, 1, 0>>,
     <<"case_ignorable", 43052, 43052, 1, 0>>,
     <<"case_ignorable", 43204, 43205, 1, 0>>,
     <<"case_ignorable", 43232, 43249, 1, 0>>,
     <<"case_ignorable", 43263, 43263, 1, 0>>,
     <<"case_ignorable", 43302, 43309, 1, 0>>,
     <<"case_ignorable", 43335, 43345, 1, 0>>,
     <<"case_ignorable", 43392, 43394, 1, 0>>,
     <<"case_ignorable", 43443, 43443, 1, 0>>,
     <<"case_ignorable", 43446, 43449, 1, 0>>,
     <<"case_ignorable", 43452, 43453, 1, 0>>,
     <<"case_ignorable", 43471, 43471, 1, 0>>,
     <<"case_ignorable", 43493, 43494, 1, 0>>,
     <<"case_ignorable", 43561, 43566, 1, 0>>,
     <<"case_ignorable", 43569, 43570, 1, 0>>,
     <<"case_ignorable", 43573, 43574, 1, 0>>,
     <<"case_ignorable", 43587, 43587, 1, 0>>,
     <<"case_ignorable", 43596, 43596, 1, 0>>,
     <<"case_ignorable", 43632, 43632, 1, 0>>,
     <<"case_ignorable", 43644, 43644, 1, 0>>,
     <<"case_ignorable", 43696, 43698, 2, 0>>,
     <<"case_ignorable", 43699, 43700, 1, 0>>,
     <<"case_ignorable", 43703, 43704, 1, 0>>,
     <<"case_ignorable", 43710, 43711, 1, 0>>,
     <<"case_ignorable", 43713, 43713, 1, 0>>,
     <<"case_ignorable", 43741, 43741, 1, 0>>,
     <<"case_ignorable", 43756, 43757, 1, 0>>,
     <<"case_ignorable", 43763, 43764, 1, 0>>,
     <<"case_ignorable", 43766, 43766, 1, 0>>,
     <<"case_ignorable", 43867, 43871, 1, 0>>,
     <<"case_ignorable", 43881, 43883, 1, 0>>,
     <<"case_ignorable", 44005, 44005, 1, 0>>,
     <<"case_ignorable", 44008, 44008, 1, 0>>,
     <<"case_ignorable", 44013, 44013, 1, 0>>,
     <<"case_ignorable", 64286, 64286, 1, 0>>,
     <<"case_ignorable", 64434, 64450, 1, 0>>,
     <<"case_ignorable", 65024, 65039, 1, 0>>,
     <<"case_ignorable", 65043, 65043, 1, 0>>,
     <<"case_ignorable", 65056, 65071, 1, 0>>,
     <<"case_ignorable", 65106, 65106, 1, 0>>,
     <<"case_ignorable", 65109, 65109, 1, 0>>,
     <<"case_ignorable", 65279, 65279, 1, 0>>,
     <<"case_ignorable", 65287, 65287, 1, 0>>,
     <<"case_ignorable", 65294, 65294, 1, 0>>,
     <<"case_ignorable", 65306, 65306, 1, 0>>,
     <<"case_ignorable", 65342, 65344, 2, 0>>,
     <<"case_ignorable", 65392, 65392, 1, 0>>,
     <<"case_ignorable", 65438, 65439, 1, 0>>,
     <<"case_ignorable", 65507, 65507, 1, 0>>,
     <<"case_ignorable", 65529, 65531, 1, 0>>,
     <<"case_ignorable", 66045, 66045, 1, 0>>,
     <<"case_ignorable", 66272, 66272, 1, 0>>,
     <<"case_ignorable", 66422, 66426, 1, 0>>,
     <<"case_ignorable", 67456, 67461, 1, 0>>,
     <<"case_ignorable", 67463, 67504, 1, 0>>,
     <<"case_ignorable", 67506, 67514, 1, 0>>,
     <<"case_ignorable", 68097, 68099, 1, 0>>,
     <<"case_ignorable", 68101, 68102, 1, 0>>,
     <<"case_ignorable", 68108, 68111, 1, 0>>,
     <<"case_ignorable", 68152, 68154, 1, 0>>,
     <<"case_ignorable", 68159, 68159, 1, 0>>,
     <<"case_ignorable", 68325, 68326, 1, 0>>,
     <<"case_ignorable", 68900, 68903, 1, 0>>,
     <<"case_ignorable", 69291, 69292, 1, 0>>,
     <<"case_ignorable", 69446, 69456, 1, 0>>,
     <<"case_ignorable", 69506, 69509, 1, 0>>,
     <<"case_ignorable", 69633, 69633, 1, 0>>,
     <<"case_ignorable", 69688, 69702, 1, 0>>,
     <<"case_ignorable", 69744, 69744, 1, 0>>,
     <<"case_ignorable", 69747, 69748, 1, 0>>,
     <<"case_ignorable", 69759, 69761, 1, 0>>,
     <<"case_ignorable", 69811, 69814, 1, 0>>,
     <<"case_ignorable", 69817, 69818, 1, 0>>,
     <<"case_ignorable", 69821, 69821, 1, 0>>,
     <<"case_ignorable", 69826, 69826, 1, 0>>,
     <<"case_ignorable", 69837, 69837, 1, 0>>,
     <<"case_ignorable", 69888, 69890, 1, 0>>,
     <<"case_ignorable", 69927, 69931, 1, 0>>,
     <<"case_ignorable", 69933, 69940, 1, 0>>,
     <<"case_ignorable", 70003, 70003, 1, 0>>,
     <<"case_ignorable", 70016, 70017, 1, 0>>,
     <<"case_ignorable", 70070, 70078, 1, 0>>,
     <<"case_ignorable", 70089, 70092, 1, 0>>,
     <<"case_ignorable", 70095, 70095, 1, 0>>,
     <<"case_ignorable", 70191, 70193, 1, 0>>,
     <<"case_ignorable", 70196, 70198, 2, 0>>,
     <<"case_ignorable", 70199, 70199, 1, 0>>,
     <<"case_ignorable", 70206, 70206, 1, 0>>,
     <<"case_ignorable", 70367, 70367, 1, 0>>,
     <<"case_ignorable", 70371, 70378, 1, 0>>,
     <<"case_ignorable", 70400, 70401, 1, 0>>,
     <<"case_ignorable", 70459, 70460, 1, 0>>,
     <<"case_ignorable", 70464, 70464, 1, 0>>,
     <<"case_ignorable", 70502, 70508, 1, 0>>,
     <<"case_ignorable", 70512, 70516, 1, 0>>,
     <<"case_ignorable", 70712, 70719, 1, 0>>,
     <<"case_ignorable", 70722, 70724, 1, 0>>,
     <<"case_ignorable", 70726, 70726, 1, 0>>,
     <<"case_ignorable", 70750, 70750, 1, 0>>,
     <<"case_ignorable", 70835, 70840, 1, 0>>,
     <<"case_ignorable", 70842, 70842, 1, 0>>,
     <<"case_ignorable", 70847, 70848, 1, 0>>,
     <<"case_ignorable", 70850, 70851, 1, 0>>,
     <<"case_ignorable", 71090, 71093, 1, 0>>,
     <<"case_ignorable", 71100, 71101, 1, 0>>,
     <<"case_ignorable", 71103, 71104, 1, 0>>,
     <<"case_ignorable", 71132, 71133, 1, 0>>,
     <<"case_ignorable", 71219, 71226, 1, 0>>,
     <<"case_ignorable", 71229, 71231, 2, 0>>,
     <<"case_ignorable", 71232, 71232, 1, 0>>,
     <<"case_ignorable", 71339, 71341, 2, 0>>,
     <<"case_ignorable", 71344, 71349, 1, 0>>,
     <<"case_ignorable", 71351, 71351, 1, 0>>,
     <<"case_ignorable", 71453, 71455, 1, 0>>,
     <<"case_ignorable", 71458, 71461, 1, 0>>,
     <<"case_ignorable", 71463, 71467, 1, 0>>,
     <<"case_ignorable", 71727, 71735, 1, 0>>,
     <<"case_ignorable", 71737, 71738, 1, 0>>,
     <<"case_ignorable", 71995, 71996, 1, 0>>,
     <<"case_ignorable", 71998, 71998, 1, 0>>,
     <<"case_ignorable", 72003, 72003, 1, 0>>,
     <<"case_ignorable", 72148, 72151, 1, 0>>,
     <<"case_ignorable", 72154, 72155, 1, 0>>,
     <<"case_ignorable", 72160, 72160, 1, 0>>,
     <<"case_ignorable", 72193, 72202, 1, 0>>,
     <<"case_ignorable", 72243, 72248, 1, 0>>,
     <<"case_ignorable", 72251, 72254, 1, 0>>,
     <<"case_ignorable", 72263, 72263, 1, 0>>,
     <<"case_ignorable", 72273, 72278, 1, 0>>,
     <<"case_ignorable", 72281, 72283, 1, 0>>,
     <<"case_ignorable", 72330, 72342, 1, 0>>,
     <<"case_ignorable", 72344, 72345, 1, 0>>,
     <<"case_ignorable", 72752, 72758, 1, 0>>,
     <<"case_ignorable", 72760, 72765, 1, 0>>,
     <<"case_ignorable", 72767, 72767, 1, 0>>,
     <<"case_ignorable", 72850, 72871, 1, 0>>,
     <<"case_ignorable", 72874, 72880, 1, 0>>,
     <<"case_ignorable", 72882, 72883, 1, 0>>,
     <<"case_ignorable", 72885, 72886, 1, 0>>,
     <<"case_ignorable", 73009, 73014, 1, 0>>,
     <<"case_ignorable", 73018, 73020, 2, 0>>,
     <<"case_ignorable", 73021, 73023, 2, 0>>,
     <<"case_ignorable", 73024, 73029, 1, 0>>,
     <<"case_ignorable", 73031, 73031, 1, 0>>,
     <<"case_ignorable", 73104, 73105, 1, 0>>,
     <<"case_ignorable", 73109, 73111, 2, 0>>,
     <<"case_ignorable", 73459, 73460, 1, 0>>,
     <<"case_ignorable", 78896, 78904, 1, 0>>,
     <<"case_ignorable", 92912, 92916, 1, 0>>,
     <<"case_ignorable", 92976, 92982, 1, 0>>,
     <<"case_ignorable", 92992, 92995, 1, 0>>,
     <<"case_ignorable", 94031, 94031, 1, 0>>,
     <<"case_ignorable", 94095, 94111, 1, 0>>,
     <<"case_ignorable", 94176, 94177, 1, 0>>,
     <<"case_ignorable", 94179, 94180, 1, 0>>,
     <<"case_ignorable", 110576, 110579, 1, 0>>,
     <<"case_ignorable", 110581, 110587, 1, 0>>,
     <<"case_ignorable", 110589, 110590, 1, 0>>,
     <<"case_ignorable", 113821, 113822, 1, 0>>,
     <<"case_ignorable", 113824, 113827, 1, 0>>,
     <<"case_ignorable", 118528, 118573, 1, 0>>,
     <<"case_ignorable", 118576, 118598, 1, 0>>,
     <<"case_ignorable", 119143, 119145, 1, 0>>,
     <<"case_ignorable", 119155, 119170, 1, 0>>,
     <<"case_ignorable", 119173, 119179, 1, 0>>,
     <<"case_ignorable", 119210, 119213, 1, 0>>,
     <<"case_ignorable", 119362, 119364, 1, 0>>,
     <<"case_ignorable", 121344, 121398, 1, 0>>,
     <<"case_ignorable", 121403, 121452, 1, 0>>,
     <<"case_ignorable", 121461, 121461, 1, 0>>,
     <<"case_ignorable", 121476, 121476, 1, 0>>,
     <<"case_ignorable", 121499, 121503, 1, 0>>,
     <<"case_ignorable", 121505, 121519, 1, 0>>,
     <<"case_ignorable", 122880, 122886, 1, 0>>,
     <<"case_ignorable", 122888, 122904, 1, 0>>,
     <<"case_ignorable", 122907, 122913, 1, 0>>,
     <<"case_ignorable", 122915, 122916, 1, 0>>,
     <<"case_ignorable", 122918, 122922, 1, 0>>,
     <<"case_ignorable", 123184, 123197, 1, 0>>,
     <<"case_ignorable", 123566, 123566, 1, 0>>,
     <<"case_ignorable", 123628, 123631, 1, 0>>,
     <<"case_ignorable", 125136, 125142, 1, 0>>,
     <<"case_ignorable", 125252, 125259, 1, 0>>,
     <<"case_ignorable", 127995, 127999, 1, 0>>,
     <<"case_ignorable", 917505, 917505, 1, 0>>,
     <<"case_ignorable", 917536, 917631, 1, 0>>,
     <<"case_ignorable", 917760, 917999, 1, 0>>, <<"cased", 65, 90, 1, 0>>,
     <<"cased", 97, 122, 1, 0>>, <<"cased", 170, 170, 1, 0>>,
     <<"cased", 181, 181, 1, 0>>, <<"cased", 186, 186, 1, 0>>,
     <<"cased", 192, 214, 1, 0>>, <<"cased", 216, 246, 1, 0>>,
     <<"cased", 248, 442, 1, 0>>, <<"cased", 444, 447, 1, 0>>,
     <<"cased", 452, 659, 1, 0>>, <<"cased", 661, 687, 1, 0>>,
     <<"cased", 880, 883, 1, 0>>, <<"cased", 886, 887, 1, 0>>,
     <<"cased", 891, 893, 1, 0>>, <<"cased", 895, 895, 1, 0>>,
     <<"cased", 902, 904, 2, 0>>, <<"cased", 905, 906, 1, 0>>,
     <<"cased", 908, 910, 2, 0>>, <<"cased", 911, 929, 1, 0>>,
     <<"cased", 931, 1013, 1, 0>>, <<"cased", 1015, 1153, 1, 0>>,
     <<"cased", 1162, 1327, 1, 0>>, <<"cased", 1329, 1366, 1, 0>>,
     <<"cased", 1376, 1416, 1, 0>>, <<"cased", 4256, 4293, 1, 0>>,
     <<"cased", 4295, 4295, 1, 0>>, <<"cased", 4301, 4301, 1, 0>>,
     <<"cased", 4304, 4346, 1, 0>>, <<"cased", 4349, 4351, 1, 0>>,
     <<"cased", 5024, 5109, 1, 0>>, <<"cased", 5112, 5117, 1, 0>>,
     <<"cased", 7296, 7304, 1, 0>>, <<"cased", 7312, 7354, 1, 0>>,
     <<"cased", 7357, 7359, 1, 0>>, <<"cased", 7424, 7467, 1, 0>>,
     <<"cased", 7531, 7543, 1, 0>>, <<"cased", 7545, 7578, 1, 0>>,
     <<"cased", 7680, 7957, 1, 0>>, <<"cased", 7960, 7965, 1, 0>>,
     <<"cased", 7968, 8005, 1, 0>>, <<"cased", 8008, 8013, 1, 0>>,
     <<"cased", 8016, 8023, 1, 0>>, <<"cased", 8025, 8031, 2, 0>>,
     <<"cased", 8032, 8061, 1, 0>>, <<"cased", 8064, 8116, 1, 0>>,
     <<"cased", 8118, 8124, 1, 0>>, <<"cased", 8126, 8126, 1, 0>>,
     <<"cased", 8130, 8132, 1, 0>>, <<"cased", 8134, 8140, 1, 0>>,
     <<"cased", 8144, 8147, 1, 0>>, <<"cased", 8150, 8155, 1, 0>>,
     <<"cased", 8160, 8172, 1, 0>>, <<"cased", 8178, 8180, 1, 0>>,
     <<"cased", 8182, 8188, 1, 0>>, <<"cased", 8450, 8450, 1, 0>>,
     <<"cased", 8455, 8455, 1, 0>>, <<"cased", 8458, 8467, 1, 0>>,
     <<"cased", 8469, 8469, 1, 0>>, <<"cased", 8473, 8477, 1, 0>>,
     <<"cased", 8484, 8490, 2, 0>>, <<"cased", 8491, 8493, 1, 0>>,
     <<"cased", 8495, 8500, 1, 0>>, <<"cased", 8505, 8505, 1, 0>>,
     <<"cased", 8508, 8511, 1, 0>>, <<"cased", 8517, 8521, 1, 0>>,
     <<"cased", 8526, 8526, 1, 0>>, <<"cased", 8544, 8575, 1, 0>>,
     <<"cased", 8579, 8580, 1, 0>>, <<"cased", 9398, 9449, 1, 0>>,
     <<"cased", 11264, 11387, 1, 0>>, <<"cased", 11390, 11492, 1, 0>>,
     <<"cased", 11499, 11502, 1, 0>>, <<"cased", 11506, 11507, 1, 0>>,
     <<"cased", 11520, 11557, 1, 0>>, <<"cased", 11559, 11559, 1, 0>>,
     <<"cased", 11565, 11565, 1, 0>>, <<"cased", 42560, 42605, 1, 0>>,
     <<"cased", 42624, 42651, 1, 0>>, <<"cased", 42786, 42863, 1, 0>>,
     <<"cased", 42865, 42887, 1, 0>>, <<"cased", 42891, 42894, 1, 0>>,
     <<"cased", 42896, 42954, 1, 0>>, <<"cased", 42960, 42961, 1, 0>>,
     <<"cased", 42963, 42965, 2, 0>>, <<"cased", 42966, 42969, 1, 0>>,
     <<"cased", 42997, 42998, 1, 0>>, <<"cased", 43002, 43002, 1, 0>>,
     <<"cased", 43824, 43866, 1, 0>>, <<"cased", 43872, 43880, 1, 0>>,
     <<"cased", 43888, 43967, 1, 0>>, <<"cased", 64256, 64262, 1, 0>>,
     <<"cased", 64275, 64279, 1, 0>>, <<"cased", 65313, 65338, 1, 0>>,
     <<"cased", 65345, 65370, 1, 0>>, <<"cased", 66560, 66639, 1, 0>>,
     <<"cased", 66736, 66771, 1, 0>>, <<"cased", 66776, 66811, 1, 0>>,
     <<"cased", 66928, 66938, 1, 0>>, <<"cased", 66940, 66954, 1, 0>>,
     <<"cased", 66956, 66962, 1, 0>>, <<"cased", 66964, 66965, 1, 0>>,
     <<"cased", 66967, 66977, 1, 0>>, <<"cased", 66979, 66993, 1, 0>>,
     <<"cased", 66995, 67001, 1, 0>>, <<"cased", 67003, 67004, 1, 0>>,
     <<"cased", 68736, 68786, 1, 0>>, <<"cased", 68800, 68850, 1, 0>>,
     <<"cased", 71840, 71903, 1, 0>>, <<"cased", 93760, 93823, 1, 0>>,
     <<"cased", 119808, 119892, 1, 0>>, <<"cased", 119894, 119964, 1, 0>>,
     <<"cased", 119966, 119967, 1, 0>>, <<"cased", 119970, 119970, 1, 0>>,
     <<"cased", 119973, 119974, 1, 0>>, <<"cased", 119977, 119980, 1, 0>>,
     <<"cased", 119982, 119993, 1, 0>>, <<"cased", 119995, 119997, 2, 0>>,
     <<"cased", 119998, 120003, 1, 0>>, <<"cased", 120005, 120069, 1, 0>>,
     <<"cased", 120071, 120074, 1, 0>>, <<"cased", 120077, 120084, 1, 0>>,
     <<"cased", 120086, 120092, 1, 0>>, <<"cased", 120094, 120121, 1, 0>>,
     <<"cased", 120123, 120126, 1, 0>>, <<"cased", 120128, 120132, 1, 0>>,
     <<"cased", 120134, 120134, 1, 0>>, <<"cased", 120138, 120144, 1, 0>>,
     <<"cased", 120146, 120485, 1, 0>>, <<"cased", 120488, 120512, 1, 0>>,
     <<"cased", 120514, 120538, 1, 0>>, <<"cased", 120540, 120570, 1, 0>>,
     <<"cased", 120572, 120596, 1, 0>>, <<"cased", 120598, 120628, 1, 0>>,
     <<"cased", 120630, 120654, 1, 0>>, <<"cased", 120656, 120686, 1, 0>>,
     <<"cased", 120688, 120712, 1, 0>>, <<"cased", 120714, 120744, 1, 0>>,
     <<"cased", 120746, 120770, 1, 0>>, <<"cased", 120772, 120779, 1, 0>>,
     <<"cased", 122624, 122633, 1, 0>>, <<"cased", 122635, 122654, 1, 0>>,
     <<"cased", 125184, 125251, 1, 0>>, <<"cased", 127280, 127305, 1, 0>>,
     <<"cased", 127312, 127337, 1, 0>>, <<"cased", 127344, 127369, 1, 0>>}

\* exchange.lower() (line 452): every character replaced by its lower-case
\* form.  In a name of ASCII characters that is "a".."z" for "A".."Z".
\* Otherwise the case tables are read (rows[i] are the rows that hold the
\* i-th character): U+0130 becomes "i" and U+0307; U+03A3 becomes the
\* final sigma U+03C2 when the nearest character before it that is not
\* case ignorable is cased and the nearest such character after it, if
\* any, is not, and U+03C3 otherwise.
Lower(exchange) ==
    LET lowered(rows) ==
            LET in(i, table) == \E r \in rows[i] : r[1] = table
                final_sigma(i) ==
                    /\ \E j \in 1..(i - 1) :
                          /\ in(j, "cased")
                          /\ \A k \in (j + 1)..(i - 1) :
                                in(k, "case_ignorable")
                    /\ ~\E j \in (i + 1)..Len(exchange) :
                          /\ in(j, "cased")
                          /\ \A k \in (i + 1)..(j - 1) :
                                in(k, "case_ignorable")
                lower(i) ==
                    IF exchange[i] = 931
                    THEN IF final_sigma(i) THEN <<962>> ELSE <<963>>
                    ELSE IF exchange[i] = 304 THEN <<105, 775>>
                    ELSE IF in(i, "lower")
                    THEN <<exchange[i]
                             + (CHOOSE r \in rows[i] : r[1] = "lower")[5]>>
                    ELSE <<exchange[i]>>
                res[i \in 0..Len(exchange)] ==
                    IF i = 0 THEN <<>> ELSE res[i - 1] \o lower(i)
            IN  res[Len(exchange)]
    IN  IF \A i \in 1..Len(exchange) : exchange[i] < 128
        THEN [i \in 1..Len(exchange) |->
                 IF 65 <= exchange[i] /\ exchange[i] <= 90
                 THEN exchange[i] + 32 ELSE exchange[i]]
        ELSE lowered([i \in 1..Len(exchange) |->
                         {r \in UnicodeCase :
                             /\ r[2] <= exchange[i]
                             /\ exchange[i] <= r[3]
                             /\ (exchange[i] - r[2]) % r[4] = 0}])

\* lines 417-452: the thresholds of an exchange, looked up under its name
\* in lower case ("binance", "coinbase", "kraken", "gateio"),
\* top_holder_pct in hundredths of a percent; an exchange that is not
\* listed gets kucoin's
Thresholds(exchange) ==
    LET get(name) ==
            IF name = <<98, 105, 110, 97, 110, 99, 101>>  \* "binance"
            THEN [liquidity_usd |-> 50000, volume_30d_usd |-> 20000,
                  top_holder_pct |-> 3000, audit_required |-> TRUE]
            ELSE IF name = <<99, 111, 105, 110, 98, 97, 115, 101>>  \* "coinbase"
            THEN [liquidity_usd |-> 100000, volume_30d_usd |-> 50000,
                  top_holder_pct |-> 2500, audit_required |-> TRUE]
            ELSE IF name = <<107, 114, 97, 107, 101, 110>>  \* "kraken"
            THEN [liquidity_usd |-> 75000, volume_30d_usd |-> 30000,
                  top_holder_pct |-> 3000, audit_required |-> TRUE]
            ELSE IF name = <<103, 97, 116, 101, 105, 111>>  \* "gateio"
            THEN [liquidity_usd |-> 20000, volume_30d_usd |-> 8000,
                  top_holder_pct |-> 4000, audit_required |-> FALSE]
            ELSE [liquidity_usd |-> 25000, volume_30d_usd |-> 10000,
                  top_holder_pct |-> 3500, audit_required |-> FALSE]
    IN  get(Lower(exchange))

\* lines 454-475: the weighted score before the rounding
ExchangeScore(threshold, top_holder_pct, liquidity_usd, volume_30d_usd, audit_pass) ==
    LET liq == IF liquidity_usd >= threshold.liquidity_usd THEN <<35, 1>>
               ELSE Frac(liquidity_usd * 35, threshold.liquidity_usd)
        vol == IF volume_30d_usd >= threshold.volume_30d_usd THEN <<25, 1>>
               ELSE Frac(volume_30d_usd * 25, threshold.volume_30d_usd)
        con == IF top_holder_pct <= threshold.top_holder_pct THEN <<25, 1>>
               ELSE FracTimes(FracMax(<<0, 1>>,
                                      Frac(threshold.top_holder_pct
                                               - top_holder_pct,
                                           threshold.top_holder_pct)),
                              25, 1)
        aud == IF audit_pass THEN <<15, 1>> ELSE <<0, 1>>
    IN  FracAdd(FracAdd(liq, vol), FracAdd(con, aud))

\* _score_exchange_readiness: the dicts the call can return (the score in
\* tenths, rounded either way on a tie)
ScoreExchangeReadiness(exchange, top_holder_pct, liquidity_usd, volume_30d_usd, audit_present) ==
    LET threshold == Thresholds(exchange)
        audit_pass == IF threshold.audit_required THEN audit_present
                      ELSE TRUE
    IN  {[exchange |-> exchange,
          score |-> sc,
          passes |->
              [liquidity |-> liquidity_usd >= threshold.liquidity_usd,
               volume |-> volume_30d_usd >= threshold.volume_30d_usd,
               concentration |-> top_holder_pct <= threshold.top_holder_pct,
               audit |-> audit_pass],
          gaps |->
              [liquidity_gap_usd |->
                   Max(0, threshold.liquidity_usd - liquidity_usd),
               volume_gap_usd |->
                   Max(0, threshold.volume_30d_usd - volume_30d_usd),
               concentration_improvement_needed |->
                   Max(0, top_holder_pct - threshold.top_holder_pct),
               audit_needed |->
                   threshold.audit_required /\ ~audit_present]] :
            sc \in Roundings(ExchangeScore(threshold, top_holder_pct,
                                           liquidity_usd, volume_30d_usd,
                                           audit_pass))}

\* lines 364-378: the exchange_scores the loop can build for the first k
\* exchanges of the request; an exchange whose requirements hold an "error"
\* is skipped
RECURSIVE ScoreExchanges(_, _)
ScoreExchanges(m, k) ==
    IF k = 0 THEN {<<>>}
    ELSE IF m.exchanges[k] \in m.errors THEN ScoreExchanges(m, k - 1)
    ELSE {Append(scores, score) :
              scores \in ScoreExchanges(m, k - 1),
              score \in ScoreExchangeReadiness(m.exchanges[k],
                                               m.top_holder_pct,
                                               m.liquidity_usd,
                                               m.volume_30d_usd,
                                               m.audit_present)}

\* the gap analysis has not been called
GapsIdle ==
    /\ exchange_metrics = [exchanges |-> <<>>]
    /\ exchange_scores = <<>>
    /\ prioritized_issues = <<>>

-----------------------------------------------------------------------------
(* EcosystemBridgeAgent.process_request: two requests for different assets  *)
(* on one agent instance.  A request gives way to the other one wherever    *)
(* it awaits a task; each task ends by logging its audit event.             *)

Runs == {1, 2}

\* the event each task logs (lines 141, 310, 340, 401, 590, 678, 709, 749,
\* 791), in the order of the pipeline
AuditEvents ==
    <<"process_start", "data_collection_complete",
      "exchange_requirements_discovered", "readiness_scoring_complete",
      "proposals_generated", "bridge_simulation_complete",
      "liquidity_plan_generated", "mm_rfp_generated",
      "governance_package_generated">>

\* what the collaborators report for the asset of each request
AssetHolderCount(r) == IF r = 1 THEN 1037 ELSE 99

\* the exchange_scores of task 3 for the token of each request: that of
\* request 1 (top-10 20.0, no liquidity, no audit) scored against binance
\* and coinbase, that of request 2 (top-10 55.0, liquidity 25,000) against
\* kucoin; the score, which rounds no tie here, is the one of the call
AssetExchangeScores(r) ==
    LET scored(exchange, top_holder_pct, liquidity_usd) ==
            CHOOSE s \in ScoreExchangeReadiness(exchange, top_holder_pct,
                                                liquidity_usd, 0, FALSE) : TRUE
    IN  IF r = 1
        THEN <<scored(TARGET_EXCHANGES[1], 2000, 0),
               scored(TARGET_EXCHANGES[2], 2000, 0)>>
        ELSE <<scored(TARGET_EXCHANGES[4], 5500, 25000)>>

\* lines 149-156: the results container of a request
NewResults ==
    [holder_count |-> -1, prioritized_issues |-> <<>>, returned |-> FALSE]

\* lines 953-959: _log_audit appends to the list of the agent instance;
\* `run` stands for the data of the event, which are the request's own
LogAudit(log, r, event_type) ==
    Append(log, [event_type |-> event_type, run |-> r])

\* as IsHighRisk, never flagging
IsHighRiskNever(top_holder_pct) == FALSE

\* lines 948-951: _is_high_risk
IsHighRisk(top_holder_pct) ==
    top_holder_pct > HIGH_RISK_CONCENTRATION_THRESHOLD

\* lines 797-837: _execute_actions
ExecuteActions(execution_mode, consent_flags) ==
    LET portal == IF /\ execution_mode = "submit"
                     /\ consent_flags.allow_portal_login
                  THEN <<"portal_submission">> ELSE <<>>
        broadcast == IF /\ execution_mode = "live"
                        /\ consent_flags.allow_tx_broadcast
                     THEN <<"tx_broadcast">> ELSE <<>>
    IN  [mode |-> execution_mode,
         actions_taken |-> portal \o broadcast,
         unsigned_transactions |-> (execution_mode = "dryrun")]

\* lines 250-253: the execution_results of a preview
PreviewResults ==
    [mode |-> "preview", actions_taken |-> <<>>,
     unsigned_transactions |-> FALSE]

\* no execution_results in `results`
NoExecutionResults ==
    [mode |-> "none", actions_taken |-> <<>>, unsigned_transactions |-> FALSE]

\* no request with a mode and consent flags has been made
NoExecution == [step |-> -1]

\* no request has been made
BridgeIdle ==
    /\ audit_log = <<>>
    /\ run_pc = [r \in Runs |-> 0]
    /\ results = [r \in Runs |-> NewResults]
    /\ execution = NoExecution

\* no agent has been called
AgentsIdle == ScorerIdle /\ GapsIdle /\ BridgeIdle

\* the calls of MonitoringAgent.start on one agent, in the order made
Loops == 1..MaxLoops

\* send_email has not been called

\* MonitoringAgent.__init__: not running, start() never called
NoMonitor ==
    [running |-> FALSE,
     loops |-> [l \in Loops |->
                  [at |-> "unstarted", iterations |-> 0, alerts |-> 0,
                   stopped |-> FALSE]]]

\* neither the email service nor the monitoring agent has been used
SupportIdle == email = [state |-> "idle"] /\ monitor = NoMonitor

-----------------------------------------------------------------------------
(* get_token_holders followed by analyze_holder_distribution *)

\* the totals the PageSource is tried with: around the page boundaries the
\* search visits (page 1, 2, 10/11, 1000), and with page SafetyCeiling as
\* the last full page or the one before the last
FullPages == {0, 1, 2, 10, 999, 1000}
Remainders == {0, 1, 37, 99}
CeilingTotals == {SafetyCeiling * PageSize, SafetyCeiling * PageSize + 37}
Totals ==
    {p * PageSize + d : p \in FullPages, d \in Remainders} \cup CeilingTotals

\* total_supply as the callers pass it: main.py leaves the default 0, the
\* agents pass the token's quantity, which comes from another request and
\* may be below or above the sum of the rows of page 1
CallerSupplies == {0, 150, 5000}

NoReturn == [kind |-> "none", value |-> <<>>]
Returned(hs) == [kind |-> "list", value |-> hs]

MarkerRow(n) == [address |-> TOTAL_HOLDERS, quantity |-> 0, total_count |-> n]

\* as WithMarker, without the guard
WithMarkerAlways(hs, n) == Append(hs, MarkerRow(n))

\* lines 245-251
WithMarker(hs, n) == IF n > Len(hs) THEN Append(hs, MarkerRow(n)) ELSE hs

\* as ComputeTotal, counting page `low` among the full pages
ComputeTotalFromLow(l, fpd) == l * PageSize + Len(fpd)

\* lines 241-242
ComputeTotal(l, fpd) == (l - 1) * PageSize + Len(fpd)

\* How the PageSource answers one request after page 1: "ok", a transient
\* failure "fail", "down" (it fails and stays down), or "stray": an
\* unreliable source answers with a row of its own, whatever the page holds
\* (so a page after an empty one can come back non-empty).
Answers ==
    {m \in {"ok", "fail", "down", "stray"} :
        /\ m = "ok" => ~outage
        /\ m = "fail" => ~outage /\ failures < MaxFailures
        /\ m = "stray" => ~outage /\ stray_budget > 0}

StrayRows == <<HolderRow(1)>>

\* what check_page_sync(page_num) returns when the source answers m
PageAnswer(m, page_num) ==
    IF m = "stray" THEN StrayRows
    ELSE check_page_sync(total, page_num, m # "ok")

SourceAnswers(m, page) ==
    /\ requests' = Append(requests, [page |-> page, ok |-> (m = "ok"),
                                     rows |-> Len(PageAnswer(m, page))])
    /\ failures' = IF m = "fail" THEN failures + 1 ELSE failures
    /\ outage' = (outage \/ m = "down")
    /\ stray_budget' = IF m = "stray" THEN stray_budget - 1 ELSE stray_budget

\* as NextUpperBound, doubling
NextUpperBoundDoubled(h) == h * 2

\* line 209: high *= 10
NextUpperBound(h) == h * ProbeFactor

\* line 233: low = mid
LowAfterRows(l, mid) == mid

\* lines 238-253: the total, the marker row and the return
Finish(l, fpd) ==
    /\ total_holders' = ComputeTotal(l, fpd)
    /\ holders' = WithMarker(holders, ComputeTotal(l, fpd))
    /\ ret' = Returned(WithMarker(holders, ComputeTotal(l, fpd)))
    /\ pc' = "returned"

Init ==
    /\ total \in Totals
    /\ pc = "assets"
    /\ holders = <<>>
    /\ low = 0
    /\ high = 0
    /\ final_page_data = <<>>
    /\ total_holders = 0
    /\ requests = <<>>
    /\ failures = 0
    /\ outage = FALSE
    /\ stray_budget = 0
    /\ ret = NoReturn
    /\ holder_list = <<>>
    /\ total_supply = 0
    /\ snapshot = NoSnapshot
    /\ swaps = 0
    /\ AgentsIdle
    /\ SupportIdle

\* lines 130-136: the policy's assets; none, or an exception, returns []
LookupAssets ==
    /\ pc = "assets"
    /\ \E outcome \in {"assets", "none", "error"} :
          IF outcome = "assets"
          THEN pc' = "page1" /\ ret' = ret
          ELSE pc' = "returned" /\ ret' = Returned(<<>>)
    /\ UNCHANGED <<total, holders, low, high, final_page_data, total_holders,
                   requests, failures, outage, holder_list, total_supply,
                   snapshot, swaps>>
    /\ UNCHANGED <<stray_budget, agentVars, supportVars>>

\* lines 153-184 and 245-257: page 1; a failure raises and the except
\* clause returns []
FetchFirstPage ==
    /\ pc = "page1"
    /\ \E fails \in BOOLEAN :
          /\ requests' = Append(requests,
                                [page |-> 1, ok |-> ~fails,
                                 rows |-> IF fails THEN 0
                                          ELSE Len(PageRows(total, 1))])
          /\ IF fails
             THEN /\ pc' = "returned"
                  /\ ret' = Returned(<<>>)
                  /\ UNCHANGED <<holders, low, high, total_holders>>
             ELSE LET addresses_data == PageRows(total, 1)
                  IN  IF Len(addresses_data) < PageSize
                      THEN /\ total_holders' = Len(addresses_data)
                           /\ holders' = WithMarker(addresses_data,
                                                    Len(addresses_data))
                           /\ ret' = Returned(WithMarker(addresses_data,
                                                         Len(addresses_data)))
                           /\ pc' = "returned"
                           /\ UNCHANGED <<low, high>>
                      ELSE /\ holders' = addresses_data
                           /\ low' = 1
                           /\ high' = FirstUpperBound
                           /\ pc' = "upper"
                           /\ UNCHANGED <<total_holders, ret>>
    /\ UNCHANGED <<total, final_page_data, failures, outage, holder_list,
                   total_supply, snapshot, swaps>>
    /\ UNCHANGED <<stray_budget, agentVars, supportVars>>

\* lines 203-214: one pass of the upper-bound loop
ProbeUpperBound ==
    /\ pc = "upper"
    /\ \E m \in Answers :
          LET data == PageAnswer(m, high)
          IN  /\ SourceAnswers(m, high)
              /\ IF data = <<>>
                 THEN /\ pc' = "search"
                      /\ UNCHANGED <<low, high>>
                 ELSE /\ low' = high
                      /\ high' = NextUpperBound(high)
                      /\ pc' = IF NextUpperBound(high) > SafetyCeiling
                               THEN "search" ELSE "upper"
    /\ final_page_data' = <<>>
    /\ UNCHANGED <<total, holders, total_holders, ret, holder_list,
                   total_supply, snapshot, swaps>>
    /\ UNCHANGED <<agentVars, supportVars>>

\* lines 215-236: one pass of the binary-search loop
BinarySearchStep ==
    /\ pc = "search"
    /\ low <= high
    /\ LET mid == (low + high) \div 2
       IN  \E m \in Answers :
             IF mid = low
             THEN LET data == PageAnswer(m, high)
                  IN  /\ SourceAnswers(m, high)
                      /\ IF data # <<>>
                         THEN /\ low' = high
                              /\ final_page_data' = data
                              /\ Finish(high, data)
                              /\ UNCHANGED high
                         ELSE IF final_page_data = <<>>
                         THEN /\ pc' = "refetch"
                              /\ UNCHANGED <<low, high, final_page_data,
                                             total_holders, holders, ret>>
                         ELSE /\ Finish(low, final_page_data)
                              /\ UNCHANGED <<low, high, final_page_data>>
             ELSE LET data == PageAnswer(m, mid)
                      lo == IF data # <<>> THEN LowAfterRows(low, mid) ELSE low
                      hi == IF data # <<>> THEN high ELSE mid - 1
                      fpd == IF data # <<>> THEN data ELSE final_page_data
                  IN  /\ SourceAnswers(m, mid)
                      /\ low' = lo
                      /\ high' = hi
                      /\ final_page_data' = fpd
                      /\ IF lo <= hi
                         THEN /\ pc' = "search"
                              /\ UNCHANGED <<total_holders, holders, ret>>
                         ELSE Finish(lo, fpd)
    /\ UNCHANGED <<total, holder_list, total_supply, snapshot, swaps>>
    /\ UNCHANGED <<agentVars, supportVars>>

\* lines 225-226: page `low` is fetched when no page data is cached
RefetchLow ==
    /\ pc = "refetch"
    /\ \E m \in Answers :
          LET data == PageAnswer(m, low)
          IN  /\ SourceAnswers(m, low)
              /\ final_page_data' = data
              /\ Finish(low, data)
    /\ UNCHANGED <<total, low, high, holder_list, total_supply, snapshot,
                   swaps>>
    /\ UNCHANGED <<agentVars, supportVars>>

\* the caller hands the returned list to analyze_holder_distribution
AnalyzeReturned ==
    /\ pc = "returned"
    /\ \E s \in CallerSupplies :
          /\ holder_list' = ret.value
          /\ total_supply' = s
          /\ snapshot' \in AnalyzeHolderDistribution(ret.value, s)
    /\ pc' = "done"
    /\ UNCHANGED <<total, holders, low, high, final_page_data, total_holders,
                   requests, failures, outage, ret, swaps>>
    /\ UNCHANGED <<stray_budget, agentVars, supportVars>>

Next ==
    \/ LookupAssets
    \/ FetchFirstPage
    \/ ProbeUpperBound
    \/ BinarySearchStep
    \/ RefetchLow
    \/ AnalyzeReturned

Spec == Init /\ [][Next]_vars

\* the same calls against a PageSource that may also answer with rows for a
\* page past the end: an asset of one full page, one of eleven pages, and
\* one that fills the pages up to the safety ceiling (for that one the
\* source keeps to failures, so that the page indices keep the totals in
\* range)
UnreliableTotals ==
    {PageSize, 10 * PageSize + 37, SafetyCeiling * PageSize + 37}

InitUnreliable ==
    /\ total \in UnreliableTotals
    /\ pc = "assets"
    /\ holders = <<>>
    /\ low = 0
    /\ high = 0
    /\ final_page_data = <<>>
    /\ total_holders = 0
    /\ requests = <<>>
    /\ failures = 0
    /\ outage = FALSE
    /\ stray_budget = IF total \in CeilingTotals THEN 0 ELSE MaxStrays
    /\ ret = NoReturn
    /\ holder_list = <<>>
    /\ total_supply = 0
    /\ snapshot = NoSnapshot
    /\ swaps = 0
    /\ AgentsIdle
    /\ SupportIdle

\* a step of get_token_holders
EstimatorStep ==
    \/ LookupAssets
    \/ FetchFirstPage
    \/ ProbeUpperBound
    \/ BinarySearchStep
    \/ RefetchLow

\* lines 159 and 192: requests.get(.., timeout=None).  The source accepts
\* the request for a page and never answers it: get_token_holders stays in
\* the call
RequestHangs ==
    /\ pc \in {"page1", "upper", "search", "refetch"}
    /\ pc = "search" => low <= high
    /\ pc' = "hung"
    /\ UNCHANGED <<total, holders, low, high, final_page_data, total_holders,
                   requests, failures, outage, ret, holder_list, total_supply,
                   snapshot, swaps>>
    /\ UNCHANGED <<stray_budget, agentVars, supportVars>>

NextUnreliable ==
    \/ Next
    \/ RequestHangs

\* the event loop resumes the coroutine whenever the request it awaits has
\* returned (rows, an empty page or a failure); nothing makes a source
\* answer
SpecUnreliable ==
    InitUnreliable /\ [][NextUnreliable]_vars /\ WF_vars(EstimatorStep)

-----------------------------------------------------------------------------
(* analyze_holder_distribution on its own: the inputs are drawn from        *)
(* bounded sets, the caller may hand the same rows over in another order    *)

Quantities == (-1)..MaxQty

RECURSIVE RowLists(_)
RowLists(n) ==
    IF n = 0 THEN {<<>>}
    ELSE LET shorter == RowLists(n - 1)
         IN  shorter \cup
             {Append(l, HolderRow(q)) :
                 l \in {x \in shorter : Len(x) = n - 1}, q \in Quantities}

\* every list of at most MaxLen rows
SmallLists == RowLists(MaxLen)

\* a short list followed by the marker row get_token_holders appends
MarkedLists ==
    {Append(l, MarkerRow(Len(l) + 7)) : l \in RowLists(MaxLen - 1)}

\* lists of 50 rows and more: a rows of quantity qa, then rows of quantity qb
BlockList(n, a, qa, qb) ==
    [i \in 1..n |-> HolderRow(IF i <= a THEN qa ELSE qb)]
BlockLists ==
    {BlockList(n, a, qa, qb) :
        n \in {50, 51, 60}, a \in {1, 10, 11}, qa \in 0..MaxQty, qb \in 0..MaxQty}

HolderLists == SmallLists \cup MarkedLists \cup BlockLists

SupplyArgs == {-1, 0, 1, 2, 3, 5, 10, 32, 1000}

\* the positions the caller exchanges when it reorders the list
SwapPositions(hs) == {i \in 1..Len(hs) : i \in {1, 2, 3, 10, 11, 50, 51, Len(hs)}}

Swapped(hs, i, j) == [hs EXCEPT ![i] = hs[j], ![j] = hs[i]]

InitAnalyze ==
    /\ holder_list \in HolderLists
    /\ total_supply \in SupplyArgs
    /\ pc = "input"
    /\ snapshot = NoSnapshot
    /\ swaps = 0
    /\ total = 0
    /\ holders = <<>>
    /\ low = 0
    /\ high = 0
    /\ final_page_data = <<>>
    /\ total_holders = 0
    /\ requests = <<>>
    /\ failures = 0
    /\ outage = FALSE
    /\ stray_budget = 0
    /\ ret = NoReturn
    /\ AgentsIdle
    /\ SupportIdle

\* analyze_holder_distribution(holders, total_supply)
Analyze ==
    /\ pc = "input"
    /\ snapshot' \in AnalyzeHolderDistribution(holder_list, total_supply)
    /\ pc' = "analyzed"
    /\ UNCHANGED <<total, holders, low, high, final_page_data, total_holders,
                   requests, failures, outage, ret, holder_list, total_supply,
                   swaps>>
    /\ UNCHANGED <<stray_budget, agentVars, supportVars>>

\* the same rows in another order, analyzed again with the same total supply
AnalyzeReordered ==
    /\ pc = "analyzed"
    /\ swaps < MaxSwaps
    /\ \E i, j \in SwapPositions(holder_list) :
          /\ i < j
          /\ holder_list[i] # holder_list[j]
          /\ holder_list' = Swapped(holder_list, i, j)
          /\ snapshot' \in
                {a \in AnalyzeHolderDistribution(Swapped(holder_list, i, j),
                                                 total_supply) :
                    RoundedAlike(holder_list, snapshot,
                                 Swapped(holder_list, i, j), a, total_supply)}
    /\ swaps' = swaps + 1
    /\ UNCHANGED <<total, pc, holders, low, high, final_page_data,
                   total_holders, requests, failures, outage, ret,
                   total_supply>>
    /\ UNCHANGED <<stray_budget, agentVars, supportVars>>

\* MonitoringAgent.start: analyze_holder_distribution(holders, None); what
\* is raised is caught and logged by the agent's loop
AnalyzeWithoutSupply ==
    /\ pc = "input"
    /\ snapshot' = AnalyzeHolderDistributionNone(holder_list)
    /\ pc' = "monitored"
    /\ UNCHANGED <<total, holders, low, high, final_page_data, total_holders,
                   requests, failures, outage, ret, holder_list, total_supply,
                   swaps>>
    /\ UNCHANGED <<stray_budget, agentVars, supportVars>>

NextAnalyze ==
    \/ Analyze
    \/ AnalyzeReordered
    \/ AnalyzeWithoutSupply

SpecAnalyze == InitAnalyze /\ [][NextAnalyze]_vars

-----------------------------------------------------------------------------
(* _calculate_readiness_score on its own: the bundle is drawn from bounded *)
(* sets that hold every branch boundary of the scorer, absent market data, *)
(* negative amounts and scores outside [0, 100]                            *)

\* CardanoService has not been called
ServiceIdle ==
    /\ total = 0
    /\ holders = <<>>
    /\ low = 0
    /\ high = 0
    /\ final_page_data = <<>>
    /\ total_holders = 0
    /\ requests = <<>>
    /\ failures = 0
    /\ outage = FALSE
    /\ stray_budget = 0
    /\ ret = NoReturn
    /\ holder_list = <<>>
    /\ total_supply = 0
    /\ snapshot = NoSnapshot
    /\ swaps = 0

serviceVars == <<total, holders, low, high, final_page_data, total_holders,
                 requests, failures, outage, stray_budget, ret, holder_list,
                 total_supply, snapshot, swaps>>

LiquidityValues ==
    {None} \cup {Some(v) : v \in {-10000, 0, 5000, 10000, 30000, 50000,
                                  75000, 100000, 200000}}
VolumeValues == {None} \cup {Some(v) : v \in {-20000, 0, 1000, 5000, 20000}}
HolderCounts == {0, 500, 1000, 10000}
TopTenValues == {1500, 2000, 2920, 3000, 4000, 5000, 6000, 8000, 15000}
MetadataScores == {-50, 0, 1, 90, 100, 150, 1000}
RiskScores == {-50, 0, 42, 90, 100}

MetricsBundles ==
    [liquidity_usd : LiquidityValues,
     volume_24h : VolumeValues,
     holder_count : HolderCounts,
     top_10_concentration : TopTenValues,
     metadata_score : MetadataScores,
     contract_risk_score : RiskScores,
     market_data_available : BOOLEAN]

InitScore ==
    /\ metrics \in MetricsBundles
    /\ readiness = NoScore
    /\ pc = "metrics"
    /\ ServiceIdle
    /\ SupportIdle
    /\ GapsIdle
    /\ BridgeIdle

\* _calculate_readiness_score(metrics)
Score ==
    /\ pc = "metrics"
    /\ readiness' \in CalculateReadinessScore(metrics)
    /\ pc' = "scored"
    /\ UNCHANGED <<serviceVars, supportVars, metrics, gapVars, bridgeVars>>

NextScore == Score

SpecScore == InitScore /\ [][NextScore]_vars

-----------------------------------------------------------------------------
(* _prioritize_issues on its own: every list of at most MaxExchanges       *)
(* exchanges, each with a gap record drawn from both sides of the          *)
(* priority thresholds                                                     *)

GapRecords ==
    [liquidity_gap_usd : {0, 50000, 60000, 75000},
     concentration_improvement_needed : {0, 1000, 2000},
     audit_needed : BOOLEAN]

\* the exchange_scores of the first n target exchanges
ExchangeScores(n) ==
    {[i \in 1..n |-> [exchange |-> TARGET_EXCHANGES[i], gaps |-> g[i]]] :
        g \in [1..n -> GapRecords]}

InitGaps ==
    /\ \E n \in 0..MaxExchanges : exchange_scores \in ExchangeScores(n)
    /\ exchange_metrics = [exchanges |-> <<>>]
    /\ prioritized_issues = <<>>
    /\ pc = "gaps"
    /\ ServiceIdle
    /\ SupportIdle
    /\ ScorerIdle
    /\ BridgeIdle

\* _prioritize_issues(exchange_scores)
Prioritize ==
    /\ pc = "gaps"
    /\ prioritized_issues' = PrioritizeIssues(exchange_scores)
    /\ pc' = "prioritized"
    /\ UNCHANGED <<serviceVars, supportVars, scorerVars, bridgeVars, exchange_metrics,
                   exchange_scores>>

NextGaps == Prioritize

SpecGaps == InitGaps /\ [][NextGaps]_vars

-----------------------------------------------------------------------------
(* _calculate_readiness_scoring: the metrics of a token scored against the  *)
(* exchanges of the request, and the issues prioritised                     *)

\* the metrics and the exchange_requirements of a call: the targets, a part
\* of them, one the thresholds do not list ("okx"), names in upper and
\* mixed case ("Kraken", "KuCoin"; "BINANCE", "Coinbase", "GateIO";
\* "COINBASE", "Gate.io", "KUCOIN") and names with letters outside ASCII
\* ("\u212araken" with the Kelvin sign, "OK\u03a3" with a final sigma);
\* top-10 concentrations (hundredths of a percent) around the thresholds
\* and around 10 points above them; liquidity around the thresholds and
\* around a shortfall of 50,000.  `errors` holds the exchanges whose
\* requirements are {"error": ..}, any of them: task 2 stores that when the
\* lookup fails or ExchangeService does not know the name
\* (exchange_service.py lines 44-48), and a caller may pass requirements
\* for a name the thresholds do not list
ExchangeMetrics ==
    UNION {[exchanges : {x},
            errors : {{x[j] : j \in failed} : failed \in SUBSET (1..Len(x))},
            top_holder_pct : {0, 2500, 2501, 3000, 3500, 3501, 4000, 4001,
                              4500, 5000, 5001, 10000},
            liquidity_usd : {0, 19999, 20000, 24999, 25000, 49999, 50000,
                             50001, 75000, 100000},
            volume_30d_usd : {0, 9000, 50000},
            audit_present : BOOLEAN] :
               x \in {TARGET_EXCHANGES,
                      <<TARGET_EXCHANGES[2]>>,
                      <<TARGET_EXCHANGES[1], TARGET_EXCHANGES[5]>>,
                      <<TARGET_EXCHANGES[3], <<111, 107, 120>>>>,
                      <<<<75, 114, 97, 107, 101, 110>>,
                        <<75, 117, 67, 111, 105, 110>>>>,
                      <<<<66, 73, 78, 65, 78, 67, 69>>,
                        <<67, 111, 105, 110, 98, 97, 115, 101>>,
                        <<71, 97, 116, 101, 73, 79>>>>,
                      <<<<67, 79, 73, 78, 66, 65, 83, 69>>,
                        <<71, 97, 116, 101, 46, 105, 111>>,
                        <<75, 85, 67, 79, 73, 78>>>>,
                      <<<<8490, 114, 97, 107, 101, 110>>,
                        <<79, 75, 931>>>>,
                      <<>>}}

InitReadiness ==
    /\ exchange_metrics \in ExchangeMetrics
    /\ exchange_scores = <<>>
    /\ prioritized_issues = <<>>
    /\ pc = "readiness"
    /\ ServiceIdle
    /\ SupportIdle
    /\ ScorerIdle
    /\ BridgeIdle

\* lines 364-402: every exchange whose requirements hold no error scored,
\* the issues prioritised, the audit event logged
CalculateReadinessScoring ==
    /\ pc = "readiness"
    /\ exchange_scores'
          \in ScoreExchanges(exchange_metrics, Len(exchange_metrics.exchanges))
    /\ prioritized_issues' = PrioritizeIssues(exchange_scores')
    /\ audit_log' = LogAudit(audit_log, 1, "readiness_scoring_complete")
    /\ pc' = "reported"
    /\ UNCHANGED <<serviceVars, supportVars, scorerVars, exchange_metrics, run_pc, results,
                   execution>>

NextReadiness == CalculateReadinessScoring

SpecReadiness == InitReadiness /\ [][NextReadiness]_vars

-----------------------------------------------------------------------------
(* process_request twice on one EcosystemBridgeAgent                        *)

InitBridge ==
    /\ BridgeIdle
    /\ pc = "bridge"
    /\ ServiceIdle
    /\ SupportIdle
    /\ ScorerIdle
    /\ GapsIdle

\* one task of request r, up to the audit event that ends it: the call
\* itself (process_start), _collect_data, _discover_exchange_requirements,
\* _calculate_readiness_scoring and the five tasks after it
RunTask(r) ==
    /\ run_pc[r] < Len(AuditEvents)
    /\ LET event_type == AuditEvents[run_pc[r] + 1]
       IN  /\ audit_log' = LogAudit(audit_log, r, event_type)
           /\ results' =
                 IF event_type = "data_collection_complete"
                 THEN [results EXCEPT ![r].holder_count = AssetHolderCount(r)]
                 ELSE IF event_type = "readiness_scoring_complete"
                 THEN [results EXCEPT ![r].prioritized_issues =
                          PrioritizeIssues(AssetExchangeScores(r))]
                 ELSE results
    /\ run_pc' = [run_pc EXCEPT ![r] = run_pc[r] + 1]
    /\ UNCHANGED <<serviceVars, supportVars, pc, scorerVars, gapVars, execution>>

\* lines 258-262: results["audit_log"] = self.audit_log; return results
ReturnResults(r) ==
    /\ run_pc[r] = Len(AuditEvents)
    /\ results' = [results EXCEPT ![r].returned = TRUE]
    /\ run_pc' = [run_pc EXCEPT ![r] = run_pc[r] + 1]
    /\ UNCHANGED <<serviceVars, supportVars, pc, scorerVars, gapVars, audit_log,
                   execution>>

\* results["audit_log"] of a returned request: the agent's own list, not a
\* copy of it
ReturnedAuditLog(r) == audit_log

NextBridge ==
    \E r \in Runs :
        \/ RunTask(r)
        \/ ReturnResults(r)

SpecBridge == InitBridge /\ [][NextBridge]_vars

-----------------------------------------------------------------------------
(* process_request with an execution mode and consent flags: one request,   *)
(* task by task, each task either logging its audit event or raising        *)

\* the requests: the four modes of class ExecutionMode (lines 29-34) and a
\* string that is none of them, every
\* combination of consent flags, top-10 concentrations (hundredths of a
\* percent) on both sides of the high-risk threshold
ExecutionRequests ==
    [execution_mode : {"preview", "dryrun", "submit", "live", "LIVE"},
     consent_flags : [allow_portal_login : BOOLEAN,
                      allow_email_send : BOOLEAN,
                      allow_tx_broadcast : BOOLEAN],
     top_holder_pct : {3000, 4000, 4001, 10000}]

\* lines 148-156: the results container
NewExecutionResults ==
    [high_risk_flag |-> FALSE,
     proposals |-> FALSE,
     execution_results |-> NoExecutionResults,
     errors |-> <<>>,
     returned |-> FALSE]

InitExecution ==
    /\ \E request \in ExecutionRequests :
          execution = [step |-> 0, request |-> request,
                       results |-> NewExecutionResults]
    /\ audit_log = <<>>
    /\ run_pc = [r \in Runs |-> 0]
    /\ results = [r \in Runs |-> NewResults]
    /\ pc = "execution"
    /\ ServiceIdle
    /\ SupportIdle
    /\ ScorerIdle
    /\ GapsIdle

Running == execution.step >= 0 /\ ~execution.results.returned

\* lines 263-268: a task raised; the error is recorded and results returned
TaskRaises ==
    /\ Running
    /\ execution.step >= 1
    /\ execution.step < Len(AuditEvents)
    /\ execution' =
          [execution EXCEPT !.results.errors = Append(@, "exception"),
                            !.results.returned = TRUE]
    /\ UNCHANGED <<serviceVars, supportVars, pc, scorerVars, gapVars, audit_log, run_pc,
                   results>>

\* lines 141-146 and the tasks 1, 2, 4, 5, 6, 7 (lines 160-174, 190-229):
\* the task logs its audit event; task 4 leaves the proposals in results
TaskDone ==
    /\ Running
    /\ execution.step < Len(AuditEvents) - 1
    /\ AuditEvents[execution.step + 1] # "readiness_scoring_complete"
    /\ audit_log' = LogAudit(audit_log, 1, AuditEvents[execution.step + 1])
    /\ execution' =
          [execution EXCEPT
              !.step = @ + 1,
              !.results.proposals =
                  (@ \/ AuditEvents[execution.step + 1]
                            = "proposals_generated")]
    /\ UNCHANGED <<serviceVars, supportVars, pc, scorerVars, gapVars, run_pc, results>>

\* lines 175-187: task 3 and the high-risk check that follows it
ReadinessTaskDone ==
    /\ Running
    /\ AuditEvents[execution.step + 1] = "readiness_scoring_complete"
    /\ audit_log' = LogAudit(audit_log, 1, "readiness_scoring_complete")
    /\ LET request == execution.request
       IN  execution' =
              IF IsHighRisk(request.top_holder_pct)
              THEN IF request.execution_mode # "preview"
                   THEN [execution EXCEPT
                            !.step = @ + 1,
                            !.results.high_risk_flag = TRUE,
                            !.results.errors = Append(@, "high risk"),
                            !.results.returned = TRUE]
                   ELSE [execution EXCEPT
                            !.step = @ + 1,
                            !.results.high_risk_flag = TRUE]
              ELSE [execution EXCEPT !.step = @ + 1]
    /\ UNCHANGED <<serviceVars, supportVars, pc, scorerVars, gapVars, run_pc, results>>

\* lines 231-262: task 8, then _execute_actions or the preview message,
\* and the return
LastTaskAndExecution ==
    /\ Running
    /\ execution.step = Len(AuditEvents) - 1
    /\ audit_log' = LogAudit(audit_log, 1, AuditEvents[Len(AuditEvents)])
    /\ LET request == execution.request
       IN  execution' =
              [execution EXCEPT
                  !.step = @ + 1,
                  !.results.execution_results =
                      IF request.execution_mode # "preview"
                      THEN ExecuteActions(request.execution_mode,
                                          request.consent_flags)
                      ELSE PreviewResults,
                  !.results.returned = TRUE]
    /\ UNCHANGED <<serviceVars, supportVars, pc, scorerVars, gapVars, run_pc, results>>

NextExecution ==
    \/ TaskDone
    \/ TaskRaises
    \/ ReadinessTaskDone
    \/ LastTaskAndExecution

SpecExecution == InitExecution /\ [][NextExecution]_vars

-----------------------------------------------------------------------------
(* EmailService.send_email: one call.  An address is the sequence of its    *)
(* characters.  Each turn of the retry loop opens one connection; what the  *)
(* SMTP server does to it is the call that raises, if any, and the class of *)
(* the exception.  The call gives way to the other tasks of the event loop *)
(* only where it sleeps between two turns; a task that runs then, or after *)
(* the call has returned, may call clear_delivery_log().  `delivery_log`   *)
(* is the list of the service, `logged` the statuses this call has passed  *)
(* to _log_delivery.                                                       *)

\* _validate_email: an "@", and a "." in what follows the first "@" up to
\* the second one (email.split("@")[1])
ValidateEmail(addr) ==
    LET ats == {i \in 1..Len(addr) : addr[i] = "@"}
    IN  /\ ats # {}
        /\ LET first == CHOOSE i \in ats : \A j \in ats : i <= j
               later == {i \in ats : i > first}
               second == IF later = {} THEN Len(addr) + 1
                         ELSE CHOOSE i \in later : \A j \in later : i <= j
           IN  \E i \in (first + 1)..(second - 1) : addr[i] = "."

\* what one connection meets: nothing raises, login raises
\* SMTPAuthenticationError, or one of the four calls raises another
\* SMTPException or an exception that is no SMTPException (OSError, ...)
SmtpOutcomes ==
    {[raised_at |-> "none", error |-> "none"],
     [raised_at |-> "login", error |-> "SMTPAuthenticationError"]}
    \cup [raised_at : {"connect", "login", "sendmail", "quit"},
          error : {"SMTPException", "Exception"}]

\* a call of send_email: credentials set or not, one of five recipients
InitEmail ==
    /\ pc = "email"
    /\ ServiceIdle
    /\ AgentsIdle
    /\ monitor = NoMonitor
    /\ email \in
         [state : {"called"},
          configured : BOOLEAN,
          to_email : {<<"a", "@", "b", ".", "c">>, <<"a", "@", "b">>,
                      <<"a", ".", "b">>, <<"@", ".">>,
                      <<"a", "@", "b", "@", "c", ".", "d">>},
          outcomes : {<<>>},
          delivery_log : {<<>>},
          logged : {<<>>},
          result : {<<>>}]

\* the checks before the message is built: no credentials, no send and no
\* log entry; an invalid recipient, one "failed" entry
ValidateCall ==
    /\ email.state = "called"
    /\ email' =
         IF ~email.configured
         THEN [email EXCEPT !.state = "returned",
                            !.result = <<[success |-> FALSE, mock |-> TRUE]>>]
         ELSE IF ~ValidateEmail(email.to_email)
         THEN [email EXCEPT !.state = "returned",
                            !.delivery_log = Append(@, "failed"),
                            !.logged = Append(@, "failed"),
                            !.result = <<[success |-> FALSE, mock |-> FALSE]>>]
         ELSE [email EXCEPT !.state = "sending"]
    /\ UNCHANGED <<serviceVars, pc, agentVars, monitor>>

\* one turn of `for attempt in range(self.max_retries)`
Attempt ==
    /\ email.state = "sending"
    /\ Len(email.outcomes) < max_retries
    /\ \E o \in SmtpOutcomes :
         LET attempt == Len(email.outcomes)
             retry == attempt < max_retries - 1
             status ==
                 IF o.error = "none" THEN "success"
                 ELSE IF o.error = "SMTPAuthenticationError" THEN "failed"
                 ELSE IF o.error = "SMTPException"
                 THEN IF retry THEN "retrying" ELSE "failed"
                 ELSE "failed"
             returns ==
                 o.error \in {"none", "SMTPAuthenticationError"} \/ ~retry
         IN  email' =
               [email EXCEPT
                  !.outcomes = Append(@, o),
                  !.delivery_log = Append(@, status),
                  !.logged = Append(@, status),
                  !.state = IF returns THEN "returned" ELSE "sending",
                  !.result =
                      IF returns
                      THEN <<[success |-> o.error = "none", mock |-> FALSE]>>
                      ELSE <<>>]
    /\ UNCHANGED <<serviceVars, pc, agentVars, monitor>>

\* clear_delivery_log(), called by another task while send_email sleeps
\* before its next attempt (lines 256 and 277) or after it has returned:
\* self.delivery_log = []
ClearDeliveryLog ==
    /\ \/ email.state = "returned"
       \/ email.state = "sending" /\ Len(email.outcomes) >= 1
    /\ email' = [email EXCEPT !.delivery_log = <<>>]
    /\ UNCHANGED <<serviceVars, pc, agentVars, monitor>>

NextEmail ==
    \/ ValidateCall
    \/ Attempt
    \/ ClearDeliveryLog

SpecEmail == InitEmail /\ [][NextEmail]_vars

-----------------------------------------------------------------------------
(* MonitoringAgent.start and stop on one agent.  Each call of start is a    *)
(* coroutine of the event loop; it gives way where it awaits: while it      *)
(* fetches the metrics of an iteration and while it sleeps.  Of a loop,     *)
(* `iterations` counts the iterations begun, `alerts` the alert callbacks   *)
(* invoked, and `stopped` tells that stop() was called since it began.      *)

InitMonitor ==
    /\ pc = "monitor"
    /\ ServiceIdle
    /\ AgentsIdle
    /\ email = [state |-> "idle"]
    /\ monitor = NoMonitor

\* start(): self.running = True, the while test passes and the first
\* iteration begins, up to its first await
Start(l) ==
    /\ monitor.loops[l].at = "unstarted"
    /\ \A k \in 1..(l - 1) : monitor.loops[k].at # "unstarted"
    /\ monitor' =
         [running |-> TRUE,
          loops |-> [monitor.loops EXCEPT
                       ![l] = [at |-> "fetching", iterations |-> 1,
                               alerts |-> 0, stopped |-> FALSE]]]
    /\ UNCHANGED <<serviceVars, pc, agentVars, email>>

\* the rest of an iteration: the metrics arrive or a fetch raises, and up
\* to two callbacks are invoked (listing_ready or liquidity_low, and
\* concentration_high); then the loop sleeps
Iterate(l) ==
    /\ monitor.loops[l].at = "fetching"
    /\ \E callbacks \in 0..2 :
         monitor' = [monitor EXCEPT !.loops[l].at = "sleeping",
                                    !.loops[l].alerts = @ + callbacks]
    /\ UNCHANGED <<serviceVars, pc, agentVars, email>>

\* the sleep ends and `while self.running` is tested: the next iteration
\* begins or start() returns
Wake(l) ==
    /\ monitor.loops[l].at = "sleeping"
    /\ monitor.running => monitor.loops[l].iterations < MaxIterations
    /\ monitor' =
         IF monitor.running
         THEN [monitor EXCEPT !.loops[l].at = "fetching",
                              !.loops[l].iterations = @ + 1]
         ELSE [monitor EXCEPT !.loops[l].at = "returned"]
    /\ UNCHANGED <<serviceVars, pc, agentVars, email>>

\* stop(): self.running = False
Stop ==
    /\ monitor' =
         [running |-> FALSE,
          loops |-> [l \in Loops |->
                       IF monitor.loops[l].at \in {"fetching", "sleeping"}
                       THEN [monitor.loops[l] EXCEPT !.stopped = TRUE]
                       ELSE monitor.loops[l]]]
    /\ UNCHANGED <<serviceVars, pc, agentVars, email>>

NextMonitor ==
    \/ \E l \in Loops : Start(l)
    \/ \E l \in Loops : Iterate(l)
    \/ \E l \in Loops : Wake(l)
    \/ Stop

\* the event loop runs every coroutine that is ready and every sleep ends
SpecMonitor ==
    /\ InitMonitor
    /\ [][NextMonitor]_vars
    /\ \A l \in Loops : WF_vars(Iterate(l) \/ Wake(l))

-----------------------------------------------------------------------------
(* Properties of get_token_holders followed by analyze_holder_distribution  *)
(* (specification Spec)                                                     *)

PageSourceAsked == requests # <<>>
FirstPageOk == PageSourceAsked /\ requests[1].ok
FirstPageFull == FirstPageOk /\ PageLen(total, 1) = PageSize
NoRequestFailed == \A i \in 1..Len(requests) : requests[i].ok
LaterRequests == {i \in 2..Len(requests) : TRUE}
SomeLaterFailed == \E i \in LaterRequests : ~requests[i].ok
AllLaterFailed ==
    LaterRequests # {} /\ \A i \in LaterRequests : ~requests[i].ok
GotBack == pc \in {"returned", "done"}

\* C1: when no request fails, the total_holders that
\* analyze_holder_distribution reports for the list get_token_holders
\* returned is the true number of holder rows, whatever the total (0, P-1,
\* P, P+1, 10P, 10P+37, ...).
C1_ExactTotal ==
    (pc = "done" /\ PageSourceAsked /\ NoRequestFailed)
        => snapshot.total_holders = total

\* a total that is a multiple of P: the last page counts P rows
C1_Witness ==
    /\ pc = "done"
    /\ NoRequestFailed
    /\ total = 10 * PageSize
    /\ low = 10
    /\ Len(final_page_data) = PageSize
    /\ snapshot.total_holders = 10 * PageSize

\* C2: whatever requests fail after page 1, the reported total is at most
\* the true total and at least the number of rows of page 1, and the run
\* ends with a list and a snapshot.
C2_ConservativeTotal ==
    (pc = "done" /\ FirstPageOk)
        => /\ snapshot.total_holders <= total
           /\ snapshot.total_holders >= PageLen(total, 1)
           /\ ret.kind = "list"
           /\ snapshot # NoSnapshot

\* a failure made the reported total fall strictly between the two bounds
C2_Witness ==
    /\ pc = "done"
    /\ SomeLaterFailed
    /\ snapshot.total_holders > PageLen(total, 1)
    /\ snapshot.total_holders < total

\* C3 (as claimed): a failed request for page 1 is surfaced to the caller
\* as an error; no holder list comes back.
C3_FirstPageErrorSurfaced ==
    (GotBack /\ PageSourceAsked /\ ~requests[1].ok) => ret.kind # "list"

\* C4 (as claimed): with page 1 full, any failed later request makes the
\* total the returned list carries equal to the rows of page 1.
C4_AnyFailureGivesFirstPage ==
    (GotBack /\ FirstPageFull /\ SomeLaterFailed)
        => TotalCount(ret.value) = PageLen(total, 1)

\* C4 (amended): with page 1 full, when every request after page 1 fails
\* the total the returned list carries is the number of rows of page 1.
C4_AllFailuresGiveFirstPage ==
    (GotBack /\ FirstPageFull /\ AllLaterFailed)
        => TotalCount(ret.value) = PageLen(total, 1)

\* every later request failed although the asset has more than one page
C4_Witness ==
    /\ GotBack
    /\ FirstPageFull
    /\ AllLaterFailed
    /\ total > PageSize
    /\ Len(requests) > 2
    /\ TotalCount(ret.value) = PageSize

\* the statistics of the rows of page 1 alone
FirstPageStatistics(supply) ==
    LET rows == PageRows(total, 1)
        denom == Denominator(rows, supply)
        gini == CalculateGini(rows, denom)
    IN  ConcentrationPct(rows, 10, denom)
            \X ConcentrationPct(rows, 50, denom)
            \X Round(gini[1] * 1000, gini[2])

SnapshotStatistics ==
    <<snapshot.top_10_concentration, snapshot.top_50_concentration,
      snapshot.gini_coefficient>>

\* C5 (as claimed): for every returned list the reported total_holders is
\* the estimator's total, and the statistics are those of the holder rows
\* without the marker row.
C5_ReportsEstimatorTotal ==
    (pc = "done" /\ FirstPageOk /\ ret.value # <<>>)
        => /\ snapshot.total_holders = total_holders
           /\ SnapshotStatistics \in FirstPageStatistics(total_supply)

\* C5 (amended): the reported total_holders is the estimator's total when
\* that total is greater than the number of rows returned and the number of
\* rows otherwise; the statistics are those of the holder rows without the
\* marker row.
C5_ReportsTotalOrRowCount ==
    (pc = "done" /\ FirstPageOk /\ ret.value # <<>>)
        => /\ snapshot.total_holders =
                 Max(total_holders, Len(PageRows(total, 1)))
           /\ SnapshotStatistics \in FirstPageStatistics(total_supply)

\* a list with the marker row, analyzed with a Gini coefficient inside (0,1)
C5_Witness ==
    /\ pc = "done"
    /\ HasMarker(ret.value)
    /\ total_holders > Len(PageRows(total, 1))
    /\ snapshot.total_holders = total_holders
    /\ snapshot.gini_coefficient > 0
    /\ snapshot.gini_coefficient < 1000

\* the upper-bound loop and the binary search, and the state after them
Probing == pc = "upper"
Searching == pc \in {"search", "refetch"}
SearchedAndReturned == GotBack /\ FirstPageFull /\ Len(requests) > 1

\* page `low` has been requested and answered with rows
LowObserved ==
    \E i \in 1..Len(requests) :
        requests[i].page = low /\ requests[i].ok /\ PageLen(total, low) > 0

\* the upper-bound loop was left because high exceeded the safety ceiling
CeilingEndedProbing ==
    \E i \in 1..Len(requests) :
        /\ requests[i].page = SafetyCeiling
        /\ requests[i].ok
        /\ PageLen(total, SafetyCeiling) > 0

CachedPageIsLow ==
    final_page_data # <<>> => final_page_data = PageRows(total, low)

NothingAboveHigh == CeilingEndedProbing \/ LastPage(total) <= high

\* C19 (as claimed): with no failed request, at every step of the
\* upper-bound loop and of the binary search low <= high, page low has been
\* seen non-empty, the cached page is page low's, and (unless the ceiling
\* ended the upper-bound loop) every page after high is empty; on exit low
\* is the last non-empty page.
C19_InvariantInBothPhases ==
    NoRequestFailed
        => /\ (Probing \/ Searching)
                 => /\ low <= high
                    /\ LowObserved
                    /\ CachedPageIsLow
                    /\ NothingAboveHigh
           /\ SearchedAndReturned => low = LastPage(total)

\* C19 (amended): with no failed request, at every step of the upper-bound
\* loop and of the binary search low <= high and page low has been seen
\* non-empty; at every step of the binary search the cached page is page
\* low's and (unless the ceiling ended the upper-bound loop) every page
\* after high is empty; on exit low <= high and low is the last non-empty
\* page.
C19_InvariantOfSearch ==
    NoRequestFailed
        => /\ (Probing \/ Searching) => (low <= high /\ LowObserved)
           /\ Searching => (CachedPageIsLow /\ NothingAboveHigh)
           /\ SearchedAndReturned
                 => (low <= high /\ low = LastPage(total) /\ LowObserved)

\* the binary search at work between pages 1 and 1000, with a page cached
C19_Witness ==
    /\ pc = "search"
    /\ NoRequestFailed
    /\ final_page_data = PageRows(total, low)
    /\ final_page_data # <<>>
    /\ low > 1
    /\ low < LastPage(total)
    /\ LastPage(total) <= high
    /\ high < FirstUpperBound

\* get_token_holders has returned
Terminated == pc \in {"returned", "done"}

\* a pass of the upper-bound loop that stays in the loop has multiplied
\* high and kept it under the safety ceiling
ProbesBounded ==
    (pc = "upper" /\ pc' = "upper")
        => (high' = high * ProbeFactor /\ high' <= SafetyCeiling /\ low' = high)

\* a pass of the binary search that stays in the loop has narrowed the
\* interval, which never grows at either end
SearchNarrows ==
    (pc = "search" /\ pc' = "search")
        => /\ low <= low'
           /\ high' <= high
           /\ low' <= high'
           /\ high' - low' < high - low

\* C20: whatever the PageSource does with each request (it answers rows,
\* an empty page, a failure or rows for a page after an empty one, or it
\* never answers), get_token_holders returns: a pass of the upper-bound
\* loop that continues has multiplied high by ten below the ceiling, a
\* pass of the binary search that continues has strictly narrowed
\* [low, high].
C20_Terminates ==
    /\ [][ProbesBounded /\ SearchNarrows]_vars
    /\ <>Terminated

\* a pass of the upper-bound loop and the request it has made
ProbeMade == pc = "upper" /\ Len(requests') = Len(requests) + 1
Probed == requests'[Len(requests')]

\* what a pass of the upper-bound loop does with the answer
ProbeOutcome ==
    IF Probed.rows > 0
    THEN low' = Probed.page /\ high' = ProbeFactor * Probed.page
    ELSE pc' = "search" /\ high' = Probed.page /\ low' = low

\* C21 as stated: each probe of the exponential phase requests page
\* 10 x low, low starting at 1 (so the first probe requests page 10); a
\* non-empty probe sets low to the probed page, the first empty probe
\* fixes high.
C21_ProbesTenTimesLow ==
    [][ProbeMade => (Probed.page = ProbeFactor * low /\ ProbeOutcome)]_vars

\* C21: the first probe of the exponential phase requests page 1000 with
\* low at 1, each later probe requests page 10 x low; a non-empty probe
\* sets low to the probed page, the first empty probe fixes high.
C21_ProbesFromThousand ==
    [][ProbeMade =>
          /\ Probed.page = high
          /\ Probed.page = IF low = 1 THEN FirstUpperBound
                           ELSE ProbeFactor * low
          /\ ProbeOutcome]_vars

\* page 1000 answered rows, page 10000 came back empty and fixed high
C21_Witness ==
    /\ pc = "search"
    /\ Len(requests) = 3
    /\ requests[2].page = FirstUpperBound
    /\ requests[2].rows > 0
    /\ requests[3].page = ProbeFactor * FirstUpperBound
    /\ requests[3].rows = 0
    /\ low = FirstUpperBound
    /\ high = ProbeFactor * FirstUpperBound

\* C22: no request of get_token_holders, in the exponential phase or in the
\* binary search, asks for a page beyond the safety ceiling of 10,000,000.
C22_NoPageAboveCeiling ==
    \A i \in 1..Len(requests) : requests[i].page <= SafetyCeiling

-----------------------------------------------------------------------------
(* Properties of analyze_holder_distribution (specification SpecAnalyze)    *)

NonNegative(rows) == \A i \in 1..Len(rows) : rows[i].quantity >= 0

\* C6: the empty list gives total_holders 0, both concentrations 100.0 and
\* Gini 1.0, whatever the total supply.
C6_EmptyList ==
    (pc = "analyzed" /\ holder_list = <<>>)
        => snapshot = [total_holders |-> 0,
                       top_10_concentration |-> 10000,
                       top_50_concentration |-> 10000,
                       gini_coefficient |-> 1000]

C6_Witness ==
    /\ pc = "analyzed"
    /\ holder_list = <<>>
    /\ total_supply > 0
    /\ snapshot.top_10_concentration = 10000

\* C7: with at least 50 rows, no negative quantity and a total supply of at
\* least the sum of the rows, 0 <= top_10 <= top_50 <= 100.
C7_ConcentrationsOrdered ==
    (/\ pc = "analyzed"
     /\ Len(VisibleRows(holder_list)) >= 50
     /\ NonNegative(VisibleRows(holder_list))
     /\ total_supply >= SumQuantity(VisibleRows(holder_list)))
        => /\ 0 <= snapshot.top_10_concentration
           /\ snapshot.top_10_concentration <= snapshot.top_50_concentration
           /\ snapshot.top_50_concentration <= 10000

C7_Witness ==
    /\ pc = "analyzed"
    /\ Len(holder_list) >= 50
    /\ NonNegative(holder_list)
    /\ total_supply >= SumQuantity(holder_list)
    /\ 0 < snapshot.top_10_concentration
    /\ snapshot.top_10_concentration < snapshot.top_50_concentration
    /\ snapshot.top_50_concentration < 10000

\* C8 (as claimed): both concentrations lie in [0,100] for every input,
\* also when the total supply passed is smaller than the sum of the first
\* 10 (or 50) rows.  Stated here for rows of non-negative quantities and a
\* positive total supply, the inputs the claim names.
C8_ConcentrationsClamped ==
    (/\ pc = "analyzed"
     /\ NonNegative(VisibleRows(holder_list))
     /\ total_supply > 0)
        => /\ snapshot.top_10_concentration \in 0..10000
           /\ snapshot.top_50_concentration \in 0..10000

\* C9: the Gini coefficient lies in [0,1], and analyzing the same rows in
\* another order with the same total supply gives the same Gini coefficient.
C9_GiniBoundedOrderFree ==
    /\ [](pc = "analyzed" => snapshot.gini_coefficient \in 0..1000)
    /\ [][(pc = "analyzed" /\ swaps' = swaps + 1)
            => snapshot'.gini_coefficient = snapshot.gini_coefficient]_vars

\* a reordered list of unequal rows with a Gini coefficient inside (0,1)
C9_Witness ==
    /\ pc = "analyzed"
    /\ swaps > 0
    /\ Len(holder_list) >= 2
    /\ holder_list[1].quantity > holder_list[2].quantity
    /\ snapshot.gini_coefficient > 0
    /\ snapshot.gini_coefficient < 1000

\* C10 (as claimed): one row of positive quantity gives Gini 0.0, whatever
\* the total supply.
C10_SingleHolderGiniZero ==
    (/\ pc = "analyzed"
     /\ Len(holder_list) = 1
     /\ ~HasMarker(holder_list)
     /\ holder_list[1].quantity > 0)
        => snapshot.gini_coefficient = 0

\* the value of the Gini formula (2 * cumsum) / (n * supply) - (n + 1) / n
\* compared with a / b, for rows # <<>>, supply # 0 and b > 0
FormulaAtLeast(rows, supply, a, b) ==
    LET sorted == SortedHoldings(rows)
        n == Len(sorted)
        num == 2 * GiniCumSum(sorted, n) - (n + 1) * supply
        den == n * supply
    IN  IF den > 0 THEN b * num >= a * den ELSE b * num <= a * den

\* C11 (as claimed): the Gini coefficient is 1.0 if and only if the holder
\* list is empty; no non-empty list gives exactly 1.0.
C11_GiniOneOnlyWhenEmpty ==
    pc = "analyzed"
        => (snapshot.gini_coefficient = 1000 <=> holder_list = <<>>)

\* C11 (amended): the Gini coefficient is 1.0 for the empty list, and for a
\* non-empty list exactly when no row is left beside the marker row, when
\* the denominator (the total supply if positive, else the sum of the rows)
\* is 0, or when the formula value is at least 0.9995; otherwise it is
\* below 1.0.
C11_GiniOneCases ==
    pc = "analyzed"
        => LET rows == VisibleRows(holder_list)
               denom == Denominator(rows, total_supply)
           IN  snapshot.gini_coefficient = 1000
                   <=> \/ holder_list = <<>>
                       \/ rows = <<>>
                       \/ denom = 0
                       \/ FormulaAtLeast(rows, denom, 1999, 2000)

\* rows that all hold 0, analyzed without a total supply: Gini 1.0
C11_Witness ==
    /\ pc = "analyzed"
    /\ Len(holder_list) >= 2
    /\ ~HasMarker(holder_list)
    /\ \A i \in 1..Len(holder_list) : holder_list[i].quantity = 0
    /\ total_supply = 0
    /\ snapshot.gini_coefficient = 1000

\* C12 (as claimed): analyze_holder_distribution never raises; for every
\* holder list and every total supply, an absent one included, it returns a
\* snapshot.
C12_NeverRaises ==
    pc \in {"analyzed", "monitored"} => snapshot # RaisedTypeError

\* C23: for a non-empty holder list the Gini coefficient is the same for
\* every total supply the caller passes: it is computed over the visible
\* rows with their own sum as S.
C23_GiniIgnoresSupply ==
    (pc = "analyzed" /\ holder_list # <<>>)
        => \A s \in SupplyArgs :
              \A a \in AnalyzeHolderDistribution(holder_list, s) :
                  a.gini_coefficient = snapshot.gini_coefficient

AllEqual(rows) == \A i, j \in 1..Len(rows) : rows[i].quantity = rows[j].quantity

\* one row holds everything, the others hold nothing
OneHoldsAll(rows) ==
    \E i \in 1..Len(rows) :
        /\ rows[i].quantity > 0
        /\ \A j \in 1..Len(rows) : j # i => rows[j].quantity = 0

\* the denominator is the sum of the visible quantities
SumIsDenominator ==
    /\ pc = "analyzed"
    /\ VisibleRows(holder_list) # <<>>
    /\ NonNegative(VisibleRows(holder_list))
    /\ SumQuantity(VisibleRows(holder_list)) > 0
    /\ Denominator(VisibleRows(holder_list), total_supply)
          = SumQuantity(VisibleRows(holder_list))

\* C24: with the sum of the visible quantities as denominator, the Gini
\* coefficient is 0 when all visible rows are equal, strictly positive when
\* two of them differ, and (n-1)/n when one of n rows holds everything.
C24_GiniMeasuresInequality ==
    SumIsDenominator
        => LET rows == VisibleRows(holder_list)
               n == Len(rows)
           IN  /\ AllEqual(rows) => snapshot.gini_coefficient = 0
               /\ ~AllEqual(rows) => snapshot.gini_coefficient > 0
               /\ OneHoldsAll(rows)
                     => snapshot.gini_coefficient \in Round((n - 1) * 1000, n)

-----------------------------------------------------------------------------
(* Properties of _calculate_readiness_score (specification SpecScore)       *)

Returned_Score == pc = "scored" /\ readiness # RaisedValidationError

\* C13 (as claimed): for every bundle, negative liquidity or volume and
\* metadata or contract-risk scores outside [0,100] included, the scorer
\* returns a ReadinessScore, and the six component scores and total_score
\* lie in [0,100].
C13_ScoresClamped ==
    pc = "scored"
        => /\ readiness # RaisedValidationError
           /\ readiness.total_score \in 0..1000
           /\ readiness.liquidity_score \in 0..1000
           /\ readiness.holder_distribution_score \in 0..1000
           /\ readiness.metadata_score \in 0..1000
           /\ readiness.security_score \in 0..1000
           /\ readiness.supply_stability_score \in 0..1000
           /\ readiness.market_activity_score \in 0..1000

\* the total_score of a bundle under the six market-data weights
MarketRegimeTotals(m) ==
    Roundings(MarketWeightedTotal(LiquidityScore(m), HolderScore(m),
                                  <<m.metadata_score, 1>>,
                                  <<m.contract_risk_score, 1>>,
                                  SupplyStabilityScore,
                                  MarketActivityScore(m)))

\* the total_score of a bundle under the four on-chain weights
OnChainRegimeTotals(m) ==
    Roundings(OnChainWeightedTotal(HolderScore(m), <<m.metadata_score, 1>>,
                                   <<m.contract_risk_score, 1>>,
                                   SupplyStabilityScore))

\* C14 (as claimed): the regime follows market_data_available: when the
\* flag is false the on-chain weights are used and the liquidity and
\* market-activity components are 0; when it is true the six market-data
\* weights are used; for every flag, liquidity_usd and volume_24h.
C14_RegimeByFlag ==
    Returned_Score
        => IF metrics.market_data_available
           THEN readiness.total_score \in MarketRegimeTotals(metrics)
           ELSE /\ readiness.total_score \in OnChainRegimeTotals(metrics)
                /\ readiness.liquidity_score = 0
                /\ readiness.market_activity_score = 0

\* C14 (amended): the regime follows the presence of liquidity_usd and
\* volume_24h, whatever the flag: when one of them is absent the on-chain
\* weights are used and the liquidity and market-activity components are 0;
\* when both are present the six market-data weights are used.
C14_RegimeByPresence ==
    Returned_Score
        => IF metrics.liquidity_usd # None /\ metrics.volume_24h # None
           THEN readiness.total_score \in MarketRegimeTotals(metrics)
           ELSE /\ readiness.total_score \in OnChainRegimeTotals(metrics)
                /\ readiness.liquidity_score = 0
                /\ readiness.market_activity_score = 0

\* a bundle whose flag is false although liquidity and volume are present,
\* scored under the market-data weights
C14_Witness ==
    /\ Returned_Score
    /\ ~metrics.market_data_available
    /\ metrics.liquidity_usd = Some(100000)
    /\ metrics.volume_24h = Some(20000)
    /\ readiness.liquidity_score = 1000
    /\ readiness.market_activity_score = 1000
    /\ readiness.total_score \notin OnChainRegimeTotals(metrics)

\* the bundle of the worked example
IsExampleBundle ==
    /\ metrics.liquidity_usd = Some(100000)
    /\ metrics.volume_24h = Some(20000)
    /\ metrics.holder_count = 10000
    /\ metrics.top_10_concentration = 1500
    /\ metrics.metadata_score = 90
    /\ metrics.contract_risk_score = 90
    /\ metrics.market_data_available

\* the components and the grade the example states
ExampleComponents ==
    /\ readiness # RaisedValidationError
    /\ readiness.liquidity_score = 1000
    /\ readiness.holder_distribution_score = 1000
    /\ readiness.market_activity_score = 1000
    /\ readiness.grade = "A"

\* C15 (as claimed): the example bundle scores liquidity 100, holder
\* distribution 100, market activity 100, total 96.5 and grade A.
C15_ExampleTotal965 ==
    (pc = "scored" /\ IsExampleBundle)
        => ExampleComponents /\ readiness.total_score = 965

\* C15 (amended): the example bundle scores liquidity 100, holder
\* distribution 100, market activity 100, total 95.5 and grade A.
C15_ExampleTotal955 ==
    (pc = "scored" /\ IsExampleBundle)
        => ExampleComponents /\ readiness.total_score = 955

C15_Witness ==
    /\ pc = "scored"
    /\ IsExampleBundle
    /\ readiness.total_score = 955
    /\ readiness.holder_distribution_score = 1000

\* the documented mapping, on a total in tenths
GradeOfReported(total_score) ==
    IF total_score >= 850 THEN "A"
    ELSE IF total_score >= 700 THEN "B"
    ELSE IF total_score >= 550 THEN "C"
    ELSE IF total_score >= 400 THEN "D"
    ELSE "F"

\* C25: in every ReadinessScore returned, the grade is the one the
\* documented mapping gives for the reported (rounded) total_score.
C25_GradeAgreesWithTotal ==
    Returned_Score => readiness.grade = GradeOfReported(readiness.total_score)

\* the bundle scored, with another liquidity
WithLiquidity(l) == [metrics EXCEPT !.liquidity_usd = l]

\* C26: in the market-data regime, with the other metrics fixed, a larger
\* liquidity_usd never gives a lower total_score.  Stated for liquidity and
\* volume that are not negative.
C26_MonotoneInLiquidity ==
    (/\ Returned_Score
     /\ HasMarketData(metrics)
     /\ metrics.liquidity_usd[1] >= 0
     /\ metrics.volume_24h[1] >= 0)
        => \A l \in LiquidityValues \ {None} :
              l[1] > metrics.liquidity_usd[1]
                  => \A q \in CalculateReadinessScore(WithLiquidity(l)) :
                        q # RaisedValidationError
                            => q.total_score >= readiness.total_score

-----------------------------------------------------------------------------
(* Properties of _prioritize_issues (specification SpecGaps)                *)

\* the place of an issue in the order of generation: exchange by exchange,
\* and liquidity, concentration, audit for each exchange
GenerationRank(x) ==
    LET e == CHOOSE i \in 1..Len(exchange_scores) :
                 exchange_scores[i].exchange = x.exchange
        k == IF x.issue = "liquidity" THEN 1
             ELSE IF x.issue = "holder_concentration" THEN 2
             ELSE 3
    IN  3 * e + k

\* the gaps the exchanges have
NumberOfGaps ==
    Cardinality({<<i, k>> \in (1..Len(exchange_scores)) \X (1..3) :
        LET g == exchange_scores[i].gaps
        IN  \/ k = 1 /\ g.liquidity_gap_usd > 0
            \/ k = 2 /\ g.concentration_improvement_needed > 0
            \/ k = 3 /\ g.audit_needed})

\* C16: in the list returned every issue of priority high comes before
\* every issue of priority medium, the issues of one priority are in the
\* order of generation, and every gap is listed once.
C16_HighBeforeMediumStable ==
    pc = "prioritized"
        => /\ Len(prioritized_issues) = NumberOfGaps
           /\ \A i, j \in 1..Len(prioritized_issues) :
                 i < j =>
                    LET x == prioritized_issues[i]
                        y == prioritized_issues[j]
                    IN  /\ ~(x.priority = "medium" /\ y.priority = "high")
                        /\ x.priority = y.priority
                               => GenerationRank(x) < GenerationRank(y)

\* a high issue of a later exchange was moved before a medium issue of an
\* earlier one
C16_Witness ==
    /\ pc = "prioritized"
    /\ Len(prioritized_issues) >= 4
    /\ \E i, j \in 1..Len(prioritized_issues) :
          /\ i < j
          /\ prioritized_issues[i].priority = "high"
          /\ prioritized_issues[j].priority = "medium"
          /\ GenerationRank(prioritized_issues[j])
                 < GenerationRank(prioritized_issues[i])

\* the numeric issues of one kind and one priority
Comparable(x, y) ==
    /\ x.issue # "audit_missing"
    /\ x.issue = y.issue
    /\ x.priority = y.priority

\* C17 (as claimed): among the gaps of one priority the numeric shortfalls
\* (of one kind) appear in one monotone order of magnitude: largest first
\* throughout the list, or smallest first throughout the list.
C17_OrderedByShortfall ==
    pc = "prioritized"
        => \/ \A i, j \in 1..Len(prioritized_issues) :
                 (i < j /\ Comparable(prioritized_issues[i],
                                      prioritized_issues[j]))
                    => prioritized_issues[i].gap >= prioritized_issues[j].gap
           \/ \A i, j \in 1..Len(prioritized_issues) :
                 (i < j /\ Comparable(prioritized_issues[i],
                                      prioritized_issues[j]))
                    => prioritized_issues[i].gap <= prioritized_issues[j].gap

\* the exchange and kind of the issues of one priority, in list order
TierKeys(issues, priority) ==
    LET tier == SelectSeq(issues, LAMBDA x : x.priority = priority)
    IN  [i \in 1..Len(tier) |-> <<tier[i].exchange, tier[i].issue>>]

\* C17 (amended): the gap list is ordered by priority only; the gaps of
\* one priority are listed as they were generated, whatever their
\* shortfalls.
C17_OrderedByPriorityOnly ==
    pc = "prioritized"
        => LET generated == AllIssues(exchange_scores, Len(exchange_scores))
           IN  \A priority \in {"high", "medium"} :
                  TierKeys(prioritized_issues, priority)
                      = TierKeys(generated, priority)

\* three liquidity gaps of priority high listed as 60000, 75000, 60000
C17_Witness ==
    /\ pc = "prioritized"
    /\ \E i, j, k \in 1..Len(prioritized_issues) :
          /\ i < j /\ j < k
          /\ Comparable(prioritized_issues[i], prioritized_issues[j])
          /\ Comparable(prioritized_issues[j], prioritized_issues[k])
          /\ prioritized_issues[i].gap < prioritized_issues[j].gap
          /\ prioritized_issues[j].gap > prioritized_issues[k].gap

-----------------------------------------------------------------------------
(* Properties of _calculate_readiness_scoring (specification SpecReadiness) *)

\* the positions of the issues of one kind raised for an exchange
IssuesOf(exchange, kind) ==
    {k \in 1..Len(prioritized_issues) :
        /\ prioritized_issues[k].exchange = exchange
        /\ prioritized_issues[k].issue = kind}

\* the check fails: exactly one issue of the kind, of the priority given;
\* the check passes: no issue of the kind
OneIssueIff(exchange, kind, fails, high_priority) ==
    IF fails
    THEN /\ Cardinality(IssuesOf(exchange, kind)) = 1
         /\ \A k \in IssuesOf(exchange, kind) :
               prioritized_issues[k].priority
                   = IF high_priority THEN "high" ELSE "medium"
    ELSE IssuesOf(exchange, kind) = {}

FailingChecks(exchange) ==
    LET t == Thresholds(exchange)
        m == exchange_metrics
    IN  {kind \in {"liquidity", "holder_concentration", "audit_missing"} :
            \/ kind = "liquidity" /\ m.liquidity_usd < t.liquidity_usd
            \/ /\ kind = "holder_concentration"
               /\ m.top_holder_pct > t.top_holder_pct
            \/ /\ kind = "audit_missing"
               /\ t.audit_required
               /\ ~m.audit_present}

RECURSIVE NumberOfFailingChecks(_)
NumberOfFailingChecks(k) ==
    IF k = 0 THEN 0
    ELSE NumberOfFailingChecks(k - 1)
             + Cardinality(FailingChecks(exchange_scores[k].exchange))

\* C27: for every exchange scored, each failing check among liquidity,
\* holder concentration and required audit has exactly one issue and a
\* passing check has none; the issue is high exactly when the liquidity
\* shortfall exceeds 50,000 USD, the concentration exceeds the threshold by
\* more than 10 points, or a required audit is missing, and medium
\* otherwise (exactly 50,000 or exactly 10 points is medium).
C27_OneIssuePerFailingCheck ==
    pc = "reported"
        => /\ \A i \in 1..Len(exchange_scores) :
                 LET x == exchange_scores[i].exchange
                     t == Thresholds(x)
                     m == exchange_metrics
                 IN  /\ OneIssueIff(x, "liquidity",
                                    m.liquidity_usd < t.liquidity_usd,
                                    t.liquidity_usd - m.liquidity_usd > 50000)
                     /\ OneIssueIff(x, "holder_concentration",
                                    m.top_holder_pct > t.top_holder_pct,
                                    m.top_holder_pct - t.top_holder_pct > 1000)
                     /\ OneIssueIff(x, "audit_missing",
                                    t.audit_required /\ ~m.audit_present,
                                    TRUE)
           /\ Len(prioritized_issues)
                 = NumberOfFailingChecks(Len(exchange_scores))

\* coinbase is short of exactly 50,000 USD (medium) with the concentration
\* exactly 10 points over (medium) and the audit missing (high), while
\* binance passes on liquidity
C27_Witness ==
    /\ pc = "reported"
    /\ exchange_metrics.exchanges = TARGET_EXCHANGES
    /\ exchange_metrics.errors = {}
    /\ exchange_metrics.liquidity_usd = 50000
    /\ exchange_metrics.top_holder_pct = 3500
    /\ ~exchange_metrics.audit_present
    /\ \E k \in IssuesOf(TARGET_EXCHANGES[2], "liquidity") :
          prioritized_issues[k].priority = "medium"
    /\ \E k \in IssuesOf(TARGET_EXCHANGES[2], "holder_concentration") :
          prioritized_issues[k].priority = "medium"
    /\ \E k \in IssuesOf(TARGET_EXCHANGES[2], "audit_missing") :
          prioritized_issues[k].priority = "high"
    /\ IssuesOf(TARGET_EXCHANGES[1], "liquidity") = {}

-----------------------------------------------------------------------------
(* Properties of process_request (specification SpecBridge)                 *)

\* the audit log of request r when no other request is made
AloneAuditLog(r) ==
    [i \in 1..Len(AuditEvents) |-> [event_type |-> AuditEvents[i], run |-> r]]

\* C18 (as claimed): under every interleaving of two requests, what each
\* request returns (holder count, prioritized issues, audit log) is what it
\* returns when it runs alone.
C18_RunsIndependent ==
    \A r \in Runs :
        results[r].returned
            => /\ results[r].holder_count = AssetHolderCount(r)
               /\ results[r].prioritized_issues
                      = PrioritizeIssues(AssetExchangeScores(r))
               /\ ReturnedAuditLog(r) = AloneAuditLog(r)

-----------------------------------------------------------------------------
(* Properties of process_request with a mode and consent flags              *)
(* (specification SpecExecution)                                            *)

Recorded(action) ==
    \E k \in 1..Len(execution.results.execution_results.actions_taken) :
        execution.results.execution_results.actions_taken[k] = action

ExecuteActionsReached == execution.results.execution_results.mode # "none"

\* C28: tx_broadcast is recorded only in LIVE mode with allow_tx_broadcast,
\* portal_submission only in SUBMIT mode with allow_portal_login; a token
\* with top-10 concentration above 40 in a mode other than PREVIEW gets no
\* proposals, never reaches _execute_actions and records neither; in
\* PREVIEW mode no action is executed.
C28_ActionsNeedModeAndConsent ==
    execution.step >= 0
        => LET request == execution.request
           IN  /\ Recorded("tx_broadcast")
                     => /\ request.execution_mode = "live"
                        /\ request.consent_flags.allow_tx_broadcast
               /\ Recorded("portal_submission")
                     => /\ request.execution_mode = "submit"
                        /\ request.consent_flags.allow_portal_login
               /\ (/\ request.top_holder_pct > 4000
                   /\ request.execution_mode # "preview")
                     => /\ ~execution.results.proposals
                        /\ ~ExecuteActionsReached
                        /\ ~Recorded("tx_broadcast")
                        /\ ~Recorded("portal_submission")
               /\ request.execution_mode = "preview"
                     => /\ execution.results.execution_results.actions_taken
                              = <<>>
                        /\ execution.results.execution_results.mode
                              \in {"none", "preview"}

\* a LIVE request with consent for a token at exactly 40 percent has gone
\* through every task and recorded the broadcast
C28_Witness ==
    /\ execution.step = Len(AuditEvents)
    /\ execution.results.returned
    /\ execution.request.execution_mode = "live"
    /\ execution.request.consent_flags.allow_tx_broadcast
    /\ execution.request.top_holder_pct = 4000
    /\ execution.results.proposals
    /\ Recorded("tx_broadcast")
    /\ ~Recorded("portal_submission")


-----------------------------------------------------------------------------
(* Properties of send_email (specification SpecEmail)                       *)

EmailReturned == email.state = "returned"
Deliverable ==
    email.state # "idle" /\ email.configured /\ ValidateEmail(email.to_email)

\* the message went out on the connection: sendmail returned
Sent(o) == o.raised_at \in {"quit", "none"}
AuthenticationError(o) == o.error = "SMTPAuthenticationError"

\* the entries the call has appended to the delivery log that close a
\* delivery
TerminalEntries ==
    {i \in 1..Len(email.logged) : email.logged[i] \in {"success", "failed"}}

\* C29: a call of send_email with credentials and a valid recipient makes
\* at most max_retries attempts, none after an attempt that sent the
\* message or met an authentication error, returns a result, and when it
\* has returned it has appended exactly one 'success' or 'failed' entry
\* to the delivery log
C29_BoundedAttemptsOneTerminalEntry ==
    Deliverable =>
        /\ Len(email.outcomes) <= max_retries
        /\ \A i \in 1..Len(email.outcomes) :
              Sent(email.outcomes[i]) \/ AuthenticationError(email.outcomes[i])
                  => i = Len(email.outcomes)
        /\ EmailReturned =>
              /\ email.result # <<>>
              /\ Cardinality(TerminalEntries) = 1

-----------------------------------------------------------------------------
(* Properties of MonitoringAgent (specification SpecMonitor)                *)

\* stop() was called on loop l, and the loop does not begin an iteration
\* nor, unless it is finishing one, invoke a callback
StoppedLoopBeginsNothing(l) ==
    monitor.loops[l].stopped =>
        /\ monitor'.loops[l].iterations = monitor.loops[l].iterations
        /\ monitor.loops[l].at # "fetching"
              => monitor'.loops[l].alerts = monitor.loops[l].alerts

\* C30: once stop() has been called, a loop begun by an earlier start()
\* begins no new iteration and invokes no callback after the iteration in
\* progress, and it returns, also when start() is called again while it
\* sleeps, so that the loops begun before a stop() do not add up
C30_StopEndsTheLoop ==
    /\ [][\A l \in Loops : StoppedLoopBeginsNothing(l)]_vars
    /\ \A l \in Loops :
          monitor.loops[l].stopped ~> monitor.loops[l].at = "returned"

=============================================================================
